---- MODULE Spec2Model ----
(***************************************************************************)
(* Ipshita's Library: the book store (backend REST routes over the         *)
(* relational store), the single-page client in its two persistence modes  *)
(* (API mode and localStorage mode), the reading-goal synchronizer and the *)
(* filter/sort view builder.                                               *)
(***************************************************************************)
EXTENDS Integers, Sequences, FiniteSets, TLC

(* ------------------------------------------------------------------ *)
(* Bounds of the model                                                 *)
(* ------------------------------------------------------------------ *)
\* number of books a session creates (ids are never reused)
MaxCreate == 2
\* largest page count a form can carry
MaxPages == 2
\* number of new-year rollovers a behaviour contains
MaxYears == 1
\* largest goal target the sidebar form submits
MaxTarget == 2
\* number of custom shelves a session creates
MaxShelves == 2
\* number of handler invocations that may overlap in API mode
MaxInflight == 2
\* number of books of a collection handed to the view builder
MaxBooks == 2

(* ------------------------------------------------------------------ *)
(* Program constants                                                   *)
(* ------------------------------------------------------------------ *)
\* default target of a goal record created by the backend
DefaultTarget == 24
\* initialReadingGoal.year, also the first calendar year of a behaviour
FirstYear == 2024
\* initialReadingGoal.current
InitialCurrent == 19

(* ------------------------------------------------------------------ *)
(* Values                                                              *)
(* ------------------------------------------------------------------ *)
\* an optional field: absent (undefined / null) or one value
None == <<>>

Some(x) == <<x>>

IsSome(o) == Len(o) = 1

Val(o) == o[1]

ReadingStatus == {"want_to_read", "reading", "read"}

Years == FirstYear .. (FirstYear + MaxYears)

\* a key of a Partial<Book> literal: left out, present with the value
\* undefined, present with null, or present with a value
Absent(d) == [k |-> "absent", v |-> d]

Undef(d) == [k |-> "undef", v |-> d]

Null(d) == [k |-> "null", v |-> d]

Value(x) == [k |-> "val", v |-> x]

NoUpdates == [status |-> Absent(""), progress |-> Absent(0), totalPages |-> Absent(0), shelf |-> Absent(0)]

\* JSON.stringify drops every key whose value is undefined
JSONstringify(u) == [f \in DOMAIN u |-> IF u[f].k = "undef" THEN [u[f] EXCEPT !.k = "absent"] ELSE u[f]]

\* an optional column written from a request value that passed `!== undefined`
ToColumn(x) == IF x.k = "val" THEN Some(x.v) ELSE None

RECURSIVE SelectSeq2(_, _)
\* Array.prototype.filter on a sequence of books, keeping ids in `keep`
SelectSeq2(s, keep) == IF s = <<>> THEN <<>> ELSE (IF Head(s).id \in keep THEN <<Head(s)>> ELSE <<>>) \o SelectSeq2(Tail(s), keep)

Ids(s) == {s[i].id : i \in 1 .. Len(s)}

(* ------------------------------------------------------------------ *)
(* State                                                               *)
(* ------------------------------------------------------------------ *)
VARIABLES
    mode,          \* "api": backend persistence; "local": localStorage persistence
    year,          \* new Date().getFullYear()
    nextId,        \* the next identifier the store (or Date.now()) hands out
    dbBooks,       \* backend Book table: id -> row
    dbShelves,     \* backend Shelf table: the ids of the custom shelves
    dbGoals,       \* backend ReadingGoal table: year -> [target, current]
    books,         \* client state: the book array
    customShelves, \* client state: the custom shelf ids, in creation order
    readingGoal,   \* client state: [year, target, current]
    isLoading,     \* client state: the loading screen is shown
    handlers,      \* the async handler invocations that have not finished
    view,          \* client state: searchQuery, the three filters, sortBy, sortDirection
    rendered,      \* the filtered view the book grid was last given (FilterSpec)
    stats,         \* the statistics memo the dashboard was last given (StatsSpec)
    response       \* the reply of the last request a route or a form handled

vars == <<mode, year, nextId, dbBooks, dbShelves, dbGoals, books, customShelves, readingGoal, isLoading, handlers, view, rendered, stats, response>>

\* what the presentation derives, and the last reply
viewVars == <<view, rendered, stats, response>>

NoStats == [computed |-> FALSE, shown |-> FALSE]

NoResponse == [status |-> 0]

dbVars == <<dbBooks, dbShelves, dbGoals>>

clientVars == <<books, customShelves, readingGoal, isLoading>>

(* ------------------------------------------------------------------ *)
(* The relational store (Prisma)                                       *)
(* ------------------------------------------------------------------ *)
\* prisma.book.count({ where: { status: 'read' } })
CountRead(rows) == Cardinality({i \in DOMAIN rows : rows[i].status = "read"})

\* prisma.book.count({ where: { status: 'read', dateAdded: { gte: Jan 1 y, lt: Jan 1 y+1 } } })
CountReadInYear(rows, y) == Cardinality({i \in DOMAIN rows : rows[i].status = "read" /\ rows[i].dateAdded = y})

\* an upsert that writes the whole record, resetting the target to the default
UpsertResetsTarget(goals, y, n) == [z \in DOMAIN goals \cup {y} |-> IF z = y THEN [target |-> DefaultTarget, current |-> n] ELSE goals[z]]

\* readingGoal.upsert({ where: {year}, update: {current}, create: {year, target: 24, current} })
UpsertCurrent(goals, y, n) == IF y \in DOMAIN goals THEN [goals EXCEPT ![y].current = n] ELSE [z \in DOMAIN goals \cup {y} |-> IF z = y THEN [target |-> DefaultTarget, current |-> n] ELSE goals[z]]

\* readingGoal.upsert({ where: {year}, update: {target, current}, create: {year, target, current} })
UpsertTargetCurrent(goals, y, t, n) == [z \in DOMAIN goals \cup {y} |-> IF z = y THEN [target |-> t, current |-> n] ELSE goals[z]]

\* the { year, target, current } body of a goal response
GoalJson(goals, y) == [year |-> y, target |-> goals[y].target, current |-> goals[y].current]

\* the count POST /reading-goal/sync of routes/reading-goal.ts stores
SyncCount(rows, y) == CountRead(rows)

\* the count POST /reading-goal/sync of routes/goals.ts stores
GoalsSyncCount(rows, y) == CountReadInYear(rows, y)

\* the row PUT /books/:id writes: only the keys of the body that are not undefined
UpdateData(row, body) == [row EXCEPT !.status = IF body.status.k # "absent" THEN body.status.v ELSE @, !.progress = IF body.progress.k # "absent" THEN ToColumn(body.progress) ELSE @, !.totalPages = IF body.totalPages.k # "absent" THEN ToColumn(body.totalPages) ELSE @, !.shelf = IF body.shelf.k # "absent" THEN ToColumn(body.shelf) ELSE @]

\* the row POST /books creates from the request body
CreateData(id, body, y) == [id |-> id, status |-> body.status, progress |-> IF body.status = "read" /\ IsSome(body.totalPages) /\ Val(body.totalPages) # 0 THEN body.totalPages ELSE None, totalPages |-> IF IsSome(body.totalPages) /\ Val(body.totalPages) # 0 THEN body.totalPages ELSE None, shelf |-> body.shelf, dateAdded |-> y]

\* the foreign key Book.shelfId -> Shelf.id
ShelfExists(row, shelves) == row.shelf = None \/ Val(row.shelf) \in shelves

\* Shelf deletion with Book.shelfId ON DELETE SET NULL
OnDeleteSetNull(rows, s) == [i \in DOMAIN rows |-> IF rows[i].shelf = Some(s) THEN [rows[i] EXCEPT !.shelf = None] ELSE rows[i]]

Remove(rows, id) == [i \in DOMAIN rows \ {id} |-> rows[i]]

Insert(rows, row) == [i \in DOMAIN rows \cup {row.id} |-> IF i = row.id THEN row ELSE rows[i]]

(* ------------------------------------------------------------------ *)
(* Handler invocations in flight                                       *)
(* ------------------------------------------------------------------ *)
NoGoal == [year |-> 0, target |-> 0, current |-> 0]

NoForm == [status |-> "", totalPages |-> None, shelf |-> None]

\* an invocation: its kind, where it stands, its arguments, and what the
\* backend has answered so far
H(kind, pc, id, upd, form, target) == [kind |-> kind, pc |-> pc, id |-> id, upd |-> upd, form |-> form, target |-> target, n |-> 0, yr |-> 0, resBooks |-> <<>>, resShelves |-> <<>>, resGoal |-> NoGoal]

Put(i, h) == handlers' = [handlers EXCEPT ![i] = h]

Drop(i) == handlers' = SubSeq(handlers, 1, i - 1) \o SubSeq(handlers, i + 1, Len(handlers))

At(i, kind, pc) == i \in 1 .. Len(handlers) /\ handlers[i].kind = kind /\ handlers[i].pc = pc

AtPc(i, pc) == i \in 1 .. Len(handlers) /\ handlers[i].pc = pc

\* the user can act: the library is shown and fewer than `limit` handlers run
Ready(m, limit) == mode = m /\ ~isLoading /\ Len(handlers) < limit

RECURSIVE Replace(_, _)
\* prev.map(book => book.id === bookId ? updatedBook : book)
Replace(s, b) == IF s = <<>> THEN <<>> ELSE <<IF Head(s).id = b.id THEN b ELSE Head(s)>> \o Replace(Tail(s), b)

Find(s, id) == s[CHOOSE i \in 1 .. Len(s) : s[i].id = id]

RECURSIVE SortDesc(_)
\* findMany({ orderBy: { dateAdded: 'desc' } }): newest row first
SortDesc(S) == IF S = {} THEN <<>> ELSE LET m == CHOOSE x \in S : \A y \in S : y <= x IN <<m>> \o SortDesc(S \ {m})

RECURSIVE SortAsc(_)
\* findMany({ orderBy: { createdAt: 'asc' } }): oldest row first
SortAsc(S) == IF S = {} THEN <<>> ELSE LET m == CHOOSE x \in S : \A y \in S : x <= y IN <<m>> \o SortAsc(S \ {m})

(* ------------------------------------------------------------------ *)
(* Status changes and edits                                            *)
(* ------------------------------------------------------------------ *)
\* updates that carry the new status and never touch progress
StatusOnlyUpdates(book, status) == [NoUpdates EXCEPT !.status = Value(status)]

\* the updates handleChangeStatus builds (the same code in both modes)
ChangeStatusUpdates(book, status) == [NoUpdates EXCEPT !.status = Value(status), !.progress = IF status = "want_to_read" THEN Undef(0) ELSE IF status = "read" /\ IsSome(book.totalPages) /\ Val(book.totalPages) # 0 THEN Value(Val(book.totalPages)) ELSE Absent(0)]

\* the updates handleUpdateProgress builds
ProgressUpdates(p) == [NoUpdates EXCEPT !.progress = Value(p)]

\* the updates handleSaveBookEdit of the review modal builds
SaveEditUpdates(tp, sh) == [NoUpdates EXCEPT !.totalPages = IF IsSome(tp) THEN Value(Val(tp)) ELSE Undef(0), !.shelf = IF IsSome(sh) THEN Value(Val(sh)) ELSE Null(0)]

\* API mode: handleEditBook sends PUT /books/:id
handleEditBook(id, upd) == handlers' = Append(handlers, H("edit", "put_find", id, upd, NoForm, 0)) /\ UNCHANGED <<mode, viewVars, year, nextId, dbVars, clientVars>>

\* API mode: the status dropdown of the review modal
handleChangeStatus(limit) ==
    /\ Ready("api", limit)
    /\ \E i \in 1 .. Len(books), s \in ReadingStatus : s # books[i].status /\ handleEditBook(books[i].id, ChangeStatusUpdates(books[i], s))

\* API mode: the progress slider, shown for a book being read with a page count
handleUpdateProgress(limit) ==
    /\ Ready("api", limit)
    /\ \E i \in 1 .. Len(books) : books[i].status = "reading" /\ IsSome(books[i].totalPages) /\ \E p \in 0 .. Val(books[i].totalPages) : handleEditBook(books[i].id, ProgressUpdates(p))

\* the page counts and shelves the edit form can submit for a book
PageChoices(book, more) == {book.totalPages} \cup {Some(n) : n \in more}

ShelfChoices(shelves) == {None} \cup {Some(shelves[j]) : j \in 1 .. Len(shelves)}

\* API mode: the edit form of the review modal
handleSaveBookEdit(limit, more) ==
    /\ Ready("api", limit)
    /\ \E i \in 1 .. Len(books) : \E tp \in PageChoices(books[i], more), sh \in ShelfChoices(customShelves) : handleEditBook(books[i].id, SaveEditUpdates(tp, sh))

\* PUT /books/:id, the existence check
PutFind(i) ==
    /\ At(i, "edit", "put_find")
    /\ IF handlers[i].id \in DOMAIN dbBooks THEN Put(i, [handlers[i] EXCEPT !.pc = "put_update"]) ELSE Drop(i)
    /\ UNCHANGED <<mode, viewVars, year, nextId, dbVars, clientVars>>

\* PUT /books/:id, prisma.book.update and the response
PutUpdate(i) ==
    /\ At(i, "edit", "put_update")
    /\ LET h == handlers[i]
           ok == h.id \in DOMAIN dbBooks /\ ShelfExists(UpdateData(dbBooks[h.id], JSONstringify(h.upd)), dbShelves)
       IN IF ok
          THEN /\ dbBooks' = [dbBooks EXCEPT ![h.id] = UpdateData(@, JSONstringify(h.upd))]
               /\ Put(i, [h EXCEPT !.pc = "put_resp", !.resBooks = <<dbBooks'[h.id]>>])
          ELSE Drop(i) /\ UNCHANGED dbBooks
    /\ UNCHANGED <<mode, viewVars, year, nextId, dbShelves, dbGoals, clientVars>>

\* handleEditBook after the await: the client replaces the book and, when the
\* updates carry a status, goes on to sync the reading goal
PutResp(i) ==
    /\ At(i, "edit", "put_resp")
    /\ books' = Replace(books, handlers[i].resBooks[1])
    /\ IF handlers[i].upd.status.k = "val" THEN Put(i, [handlers[i] EXCEPT !.pc = "sync_count"]) ELSE Drop(i)
    /\ UNCHANGED <<mode, viewVars, year, nextId, dbVars, customShelves, readingGoal, isLoading>>

(* ------------------------------------------------------------------ *)
(* The reading-goal synchronizer                                       *)
(* ------------------------------------------------------------------ *)
\* POST /reading-goal/sync, the count
SyncCountStep(i) ==
    /\ AtPc(i, "sync_count")
    /\ Put(i, [handlers[i] EXCEPT !.pc = "sync_upsert", !.yr = year, !.n = SyncCount(dbBooks, year)])
    /\ UNCHANGED <<mode, viewVars, year, nextId, dbVars, clientVars>>

\* POST /reading-goal/sync, the upsert and the response
SyncUpsert(i) ==
    /\ AtPc(i, "sync_upsert")
    /\ dbGoals' = UpsertCurrent(dbGoals, handlers[i].yr, handlers[i].n)
    /\ Put(i, [handlers[i] EXCEPT !.pc = "sync_resp", !.resGoal = GoalJson(dbGoals', handlers[i].yr)])
    /\ UNCHANGED <<mode, viewVars, year, nextId, dbBooks, dbShelves, clientVars>>

\* the handler after the await: setReadingGoal(updatedGoal), and it is finished
SyncResp(i) ==
    /\ AtPc(i, "sync_resp")
    /\ readingGoal' = handlers[i].resGoal
    /\ Drop(i)
    /\ UNCHANGED <<mode, viewVars, year, nextId, dbVars, books, customShelves, isLoading>>

(* ------------------------------------------------------------------ *)
(* Deleting and adding books (API mode)                                *)
(* ------------------------------------------------------------------ *)
\* API mode: handleDeleteBook sends DELETE /books/:id
handleDeleteBook(limit) ==
    /\ Ready("api", limit)
    /\ \E i \in 1 .. Len(books) : handlers' = Append(handlers, H("delete", "del_find", books[i].id, NoUpdates, NoForm, 0))
    /\ UNCHANGED <<mode, viewVars, year, nextId, dbVars, clientVars>>

\* DELETE /books/:id, the existence check
DeleteFind(i) ==
    /\ At(i, "delete", "del_find")
    /\ IF handlers[i].id \in DOMAIN dbBooks THEN Put(i, [handlers[i] EXCEPT !.pc = "del_delete"]) ELSE Drop(i)
    /\ UNCHANGED <<mode, viewVars, year, nextId, dbVars, clientVars>>

\* DELETE /books/:id, prisma.book.delete and the 204 response
DeleteRow(i) ==
    /\ At(i, "delete", "del_delete")
    /\ IF handlers[i].id \in DOMAIN dbBooks
       THEN dbBooks' = Remove(dbBooks, handlers[i].id) /\ Put(i, [handlers[i] EXCEPT !.pc = "del_resp"])
       ELSE Drop(i) /\ UNCHANGED dbBooks
    /\ UNCHANGED <<mode, viewVars, year, nextId, dbShelves, dbGoals, clientVars>>

\* handleDeleteBook after the await: the client drops the book and syncs the goal
DeleteResp(i) ==
    /\ At(i, "delete", "del_resp")
    /\ books' = SelectSeq2(books, Ids(books) \ {handlers[i].id})
    /\ Put(i, [handlers[i] EXCEPT !.pc = "sync_count"])
    /\ UNCHANGED <<mode, viewVars, year, nextId, dbVars, customShelves, readingGoal, isLoading>>

\* the forms the add-book dialog can submit
BookForms(pages, shelves) == [status : ReadingStatus, totalPages : {None} \cup {Some(n) : n \in pages}, shelf : ShelfChoices(shelves)]

\* API mode: handleAddBook sends POST /books
handleAddBook(limit, pages) ==
    /\ Ready("api", limit)
    /\ nextId.book + Cardinality({j \in 1 .. Len(handlers) : handlers[j].kind = "add" /\ handlers[j].pc = "post_create"}) <= MaxCreate
    /\ \E form \in BookForms(pages, customShelves) : handlers' = Append(handlers, H("add", "post_create", 0, NoUpdates, form, 0))
    /\ UNCHANGED <<mode, viewVars, year, nextId, dbVars, clientVars>>

\* POST /books: prisma.book.create and the 201 response
PostCreate(i) ==
    /\ At(i, "add", "post_create")
    /\ LET row == CreateData(nextId.book, handlers[i].form, year)
       IN IF ShelfExists(row, dbShelves)
          THEN /\ dbBooks' = Insert(dbBooks, row)
               /\ nextId' = [nextId EXCEPT !.book = @ + 1]
               /\ Put(i, [handlers[i] EXCEPT !.pc = "post_resp", !.id = row.id, !.resBooks = <<row>>])
          ELSE Drop(i) /\ UNCHANGED <<dbBooks, nextId>>
    /\ UNCHANGED <<mode, viewVars, year, dbShelves, dbGoals, clientVars>>

\* handleAddBook after the await: the new book goes first; a book added as
\* read is followed by a goal sync
PostResp(i) ==
    /\ At(i, "add", "post_resp")
    /\ books' = handlers[i].resBooks \o books
    /\ IF handlers[i].form.status = "read" THEN Put(i, [handlers[i] EXCEPT !.pc = "sync_count"]) ELSE Drop(i)
    /\ UNCHANGED <<mode, viewVars, year, nextId, dbVars, customShelves, readingGoal, isLoading>>

(* ------------------------------------------------------------------ *)
(* Loading, and the goal routes GET and PUT /reading-goal              *)
(* ------------------------------------------------------------------ *)
\* the client state of a freshly mounted App (API mode)
Mounted ==
    /\ books' = <<>>
    /\ customShelves' = <<>>
    /\ readingGoal' = [year |-> year, target |-> DefaultTarget, current |-> 0]
    /\ isLoading' = TRUE
    /\ handlers' = <<H("load", "load_fetch", 0, NoUpdates, NoForm, 0)>>

\* the page is loaded again: the component mounts and loadData runs
Reload ==
    /\ mode = "api" /\ ~isLoading /\ handlers = <<>>
    /\ Mounted
    /\ UNCHANGED <<mode, viewVars, year, nextId, dbVars>>

\* GET /books and GET /shelves of loadData
LoadFetch(i) ==
    /\ At(i, "load", "load_fetch")
    /\ Put(i, [handlers[i] EXCEPT !.pc = "goal_find", !.resBooks = [j \in 1 .. Cardinality(DOMAIN dbBooks) |-> dbBooks[SortDesc(DOMAIN dbBooks)[j]]], !.resShelves = SortAsc(dbShelves)])
    /\ UNCHANGED <<mode, viewVars, year, nextId, dbVars, clientVars>>

\* GET /reading-goal: the goal of the current year, if there is one
GoalGetFind(i) ==
    /\ At(i, "load", "goal_find")
    /\ IF year \in DOMAIN dbGoals
       THEN Put(i, [handlers[i] EXCEPT !.pc = "load_resp", !.resGoal = GoalJson(dbGoals, year)])
       ELSE Put(i, [handlers[i] EXCEPT !.pc = "goal_create", !.yr = year, !.n = CountReadInYear(dbBooks, year)])
    /\ UNCHANGED <<mode, viewVars, year, nextId, dbVars, clientVars>>

\* GET /reading-goal: no goal yet, one is created with the default target
GoalGetCreate(i) ==
    /\ At(i, "load", "goal_create")
    /\ handlers[i].yr \notin DOMAIN dbGoals
    /\ dbGoals' = UpsertTargetCurrent(dbGoals, handlers[i].yr, DefaultTarget, handlers[i].n)
    /\ Put(i, [handlers[i] EXCEPT !.pc = "load_resp", !.resGoal = GoalJson(dbGoals', handlers[i].yr)])
    /\ UNCHANGED <<mode, viewVars, year, nextId, dbBooks, dbShelves, clientVars>>

\* loadData after Promise.all: the three results become the client state
LoadResp(i) ==
    /\ At(i, "load", "load_resp")
    /\ books' = handlers[i].resBooks
    /\ customShelves' = handlers[i].resShelves
    /\ readingGoal' = handlers[i].resGoal
    /\ isLoading' = FALSE
    /\ Drop(i)
    /\ UNCHANGED <<mode, viewVars, year, nextId, dbVars>>

\* API mode: handleUpdateGoal sends PUT /reading-goal
handleUpdateGoal(limit) ==
    /\ Ready("api", limit)
    /\ \E t \in 1 .. MaxTarget : handlers' = Append(handlers, H("goal", "goal_count", 0, NoUpdates, NoForm, t))
    /\ UNCHANGED <<mode, viewVars, year, nextId, dbVars, clientVars>>

\* PUT /reading-goal, the count of the books read this year
GoalPutCount(i) ==
    /\ At(i, "goal", "goal_count")
    /\ Put(i, [handlers[i] EXCEPT !.pc = "goal_upsert", !.yr = year, !.n = CountReadInYear(dbBooks, year)])
    /\ UNCHANGED <<mode, viewVars, year, nextId, dbVars, clientVars>>

\* PUT /reading-goal, the upsert and the response
GoalPutUpsert(i) ==
    /\ At(i, "goal", "goal_upsert")
    /\ dbGoals' = UpsertTargetCurrent(dbGoals, handlers[i].yr, handlers[i].target, handlers[i].n)
    /\ Put(i, [handlers[i] EXCEPT !.pc = "sync_resp", !.resGoal = GoalJson(dbGoals', handlers[i].yr)])
    /\ UNCHANGED <<mode, viewVars, year, nextId, dbBooks, dbShelves, clientVars>>

\* the calendar year changes
NewYear ==
    /\ year < FirstYear + MaxYears
    /\ year' = year + 1
    /\ UNCHANGED <<mode, viewVars, nextId, dbVars, clientVars, handlers>>

(* ------------------------------------------------------------------ *)
(* Custom shelves (API mode)                                           *)
(* ------------------------------------------------------------------ *)
\* API mode: handleCreateShelf sends POST /shelves
handleCreateShelf(limit) ==
    /\ Ready("api", limit)
    /\ nextId.shelf + Cardinality({j \in 1 .. Len(handlers) : handlers[j].kind = "mkshelf" /\ handlers[j].pc = "shelf_create"}) <= MaxShelves
    /\ handlers' = Append(handlers, H("mkshelf", "shelf_create", 0, NoUpdates, NoForm, 0))
    /\ UNCHANGED <<mode, viewVars, year, nextId, dbVars, clientVars>>

\* POST /shelves: prisma.shelf.create and the 201 response
ShelfCreate(i) ==
    /\ At(i, "mkshelf", "shelf_create")
    /\ dbShelves' = dbShelves \cup {nextId.shelf}
    /\ nextId' = [nextId EXCEPT !.shelf = @ + 1]
    /\ Put(i, [handlers[i] EXCEPT !.pc = "shelf_resp", !.id = nextId.shelf])
    /\ UNCHANGED <<mode, viewVars, year, dbBooks, dbGoals, clientVars>>

\* handleCreateShelf after the await: the shelf is appended to the list
ShelfCreateResp(i) ==
    /\ At(i, "mkshelf", "shelf_resp")
    /\ customShelves' = Append(customShelves, handlers[i].id)
    /\ Drop(i)
    /\ UNCHANGED <<mode, viewVars, year, nextId, dbVars, books, readingGoal, isLoading>>

\* API mode: handleDeleteShelf sends DELETE /shelves/:id
handleDeleteShelf(limit) ==
    /\ Ready("api", limit)
    /\ \E j \in 1 .. Len(customShelves) : handlers' = Append(handlers, H("rmshelf", "shelf_find", customShelves[j], NoUpdates, NoForm, 0))
    /\ UNCHANGED <<mode, viewVars, year, nextId, dbVars, clientVars>>

\* DELETE /shelves/:id, the existence check
ShelfDeleteFind(i) ==
    /\ At(i, "rmshelf", "shelf_find")
    /\ IF handlers[i].id \in dbShelves THEN Put(i, [handlers[i] EXCEPT !.pc = "shelf_delete"]) ELSE Drop(i)
    /\ UNCHANGED <<mode, viewVars, year, nextId, dbVars, clientVars>>

\* DELETE /shelves/:id: prisma.shelf.delete (its books are unassigned) and the 204
ShelfDeleteRow(i) ==
    /\ At(i, "rmshelf", "shelf_delete")
    /\ IF handlers[i].id \in dbShelves
       THEN /\ dbShelves' = dbShelves \ {handlers[i].id}
            /\ dbBooks' = OnDeleteSetNull(dbBooks, handlers[i].id)
            /\ Put(i, [handlers[i] EXCEPT !.pc = "shelf_gone"])
       ELSE Drop(i) /\ UNCHANGED <<dbShelves, dbBooks>>
    /\ UNCHANGED <<mode, viewVars, year, nextId, dbGoals, clientVars>>

\* a map that takes every book off its shelf
ClearEveryShelf(s, shelfId) == [j \in 1 .. Len(s) |-> [s[j] EXCEPT !.shelf = None]]

\* prev.map(book => book.shelf === shelfId ? { ...book, shelf: undefined } : book)
ClearShelf(s, shelfId) == [j \in 1 .. Len(s) |-> IF s[j].shelf = Some(shelfId) THEN [s[j] EXCEPT !.shelf = None] ELSE s[j]]

\* prev.filter(s => s.id !== shelfId)
WithoutShelf(s, shelfId) == SelectSeq(s, LAMBDA x : x # shelfId)

\* handleDeleteShelf after the await: the shelf leaves the list and the books
\* that were on it lose their shelf
ShelfDeleteResp(i) ==
    /\ At(i, "rmshelf", "shelf_gone")
    /\ customShelves' = WithoutShelf(customShelves, handlers[i].id)
    /\ books' = ClearShelf(books, handlers[i].id)
    /\ Drop(i)
    /\ UNCHANGED <<mode, viewVars, year, nextId, dbVars, readingGoal, isLoading>>

(* ------------------------------------------------------------------ *)
(* localStorage mode: every handler is one synchronous state update    *)
(* ------------------------------------------------------------------ *)
\* { ...book, ...updates }
Merge(book, upd) == [book EXCEPT !.status = IF upd.status.k = "val" THEN upd.status.v ELSE @, !.progress = IF upd.progress.k # "absent" THEN ToColumn(upd.progress) ELSE @, !.totalPages = IF upd.totalPages.k # "absent" THEN ToColumn(upd.totalPages) ELSE @, !.shelf = IF upd.shelf.k # "absent" THEN ToColumn(upd.shelf) ELSE @]

\* the book handleAddBook of localStorage mode builds from the form
NewBook(id, form, y) == [id |-> id, status |-> form.status, progress |-> None, totalPages |-> form.totalPages, shelf |-> form.shelf, dateAdded |-> y]

LocalReady == mode = "local"

\* localStorage mode: handleEditBook
handleEditBookLocal(id, upd) ==
    /\ books' = [j \in 1 .. Len(books) |-> IF books[j].id = id THEN Merge(books[j], upd) ELSE books[j]]
    /\ UNCHANGED <<mode, viewVars, year, nextId, dbVars, customShelves, readingGoal, isLoading, handlers>>

\* localStorage mode: handleChangeStatus
handleChangeStatusLocal ==
    /\ LocalReady
    /\ \E i \in 1 .. Len(books), s \in ReadingStatus : s # books[i].status /\ handleEditBookLocal(books[i].id, ChangeStatusUpdates(books[i], s))

\* localStorage mode: handleUpdateProgress
handleUpdateProgressLocal ==
    /\ LocalReady
    /\ \E i \in 1 .. Len(books) : books[i].status = "reading" /\ IsSome(books[i].totalPages) /\ \E p \in 0 .. Val(books[i].totalPages) : handleEditBookLocal(books[i].id, ProgressUpdates(p))

\* localStorage mode: the edit form of the review modal
handleSaveBookEditLocal(more) ==
    /\ LocalReady
    /\ \E i \in 1 .. Len(books) : \E tp \in PageChoices(books[i], more), sh \in ShelfChoices(customShelves) : handleEditBookLocal(books[i].id, SaveEditUpdates(tp, sh))

\* localStorage mode: handleDeleteBook
handleDeleteBookLocal ==
    /\ LocalReady
    /\ \E i \in 1 .. Len(books) : books' = SelectSeq2(books, Ids(books) \ {books[i].id})
    /\ UNCHANGED <<mode, viewVars, year, nextId, dbVars, customShelves, readingGoal, isLoading, handlers>>

\* initialBooks, reduced to one book that was read and one still to read
initialBooks == <<[id |-> 1, status |-> "read", progress |-> Some(MaxPages), totalPages |-> Some(MaxPages), shelf |-> None, dateAdded |-> FirstYear], [id |-> 2, status |-> "want_to_read", progress |-> None, totalPages |-> Some(MaxPages), shelf |-> None, dateAdded |-> FirstYear]>>

\* the number of books the initial data holds
NumInitial == Len(initialBooks)

\* localStorage mode: handleAddBook
handleAddBookLocal(pages) ==
    /\ LocalReady
    /\ nextId.book <= NumInitial + MaxCreate
    /\ \E form \in BookForms(pages, customShelves) : books' = <<NewBook(nextId.book, form, year)>> \o books
    /\ nextId' = [nextId EXCEPT !.book = @ + 1]
    /\ UNCHANGED <<mode, viewVars, year, dbVars, customShelves, readingGoal, isLoading, handlers>>

\* localStorage mode: handleCreateShelf
handleCreateShelfLocal ==
    /\ LocalReady
    /\ nextId.shelf <= MaxShelves
    /\ customShelves' = Append(customShelves, nextId.shelf)
    /\ nextId' = [nextId EXCEPT !.shelf = @ + 1]
    /\ UNCHANGED <<mode, viewVars, year, dbVars, books, readingGoal, isLoading, handlers>>

\* localStorage mode: handleDeleteShelf
handleDeleteShelfLocal ==
    /\ LocalReady
    /\ \E j \in 1 .. Len(customShelves) : customShelves' = WithoutShelf(customShelves, customShelves[j]) /\ books' = ClearShelf(books, customShelves[j])
    /\ UNCHANGED <<mode, viewVars, year, nextId, dbVars, readingGoal, isLoading, handlers>>

\* localStorage mode: handleUpdateGoal
handleUpdateGoalLocal ==
    /\ LocalReady
    /\ \E t \in 1 .. MaxTarget : readingGoal' = [readingGoal EXCEPT !.target = t]
    /\ UNCHANGED <<mode, viewVars, year, nextId, dbVars, books, customShelves, isLoading, handlers>>

(* ------------------------------------------------------------------ *)
(* The filter/sort view builder                                        *)
(* ------------------------------------------------------------------ *)
\* a string is the sequence of its characters; the alphabet of the model
Chars == {"a", "A", "b", "B", "c"}

\* a mapping that leaves the case of a string as it is
KeepCase(str) == str

\* String.prototype.toLowerCase
toLowerCase(str) == [k \in DOMAIN str |-> CASE str[k] = "A" -> "a" [] str[k] = "B" -> "b" [] OTHER -> str[k]]

\* String.prototype.includes: sub occurs in str as a substring
includes(str, sub) == \E k \in 0 .. (Len(str) - Len(sub)) : SubSeq(str, k + 1, k + Len(sub)) = sub

\* the search filter of filteredBooks
MatchesSearch(book, searchQuery) == LET query == toLowerCase(searchQuery) IN includes(toLowerCase(book.title), query) \/ includes(toLowerCase(book.author), query) \/ (\E k \in 1 .. Len(book.tags) : includes(toLowerCase(book.tags[k]), query))

\* filters that read every shelf filter as a custom shelf id
ShelfAsCustom(bs, v) == SelectSeq(bs, LAMBDA book : (v.statusFilter = "all" \/ book.status = v.statusFilter) /\ (v.shelfFilter = "all" \/ book.shelf = Some(v.shelfFilter)))

\* the search, status, shelf and tag filters of filteredBooks, in that order
Filtered(bs, v) ==
    LET r1 == IF v.searchQuery # <<>> THEN SelectSeq(bs, LAMBDA book : MatchesSearch(book, v.searchQuery)) ELSE bs
        r2 == IF v.statusFilter # "all" THEN SelectSeq(r1, LAMBDA book : book.status = v.statusFilter) ELSE r1
        r3 == IF v.shelfFilter # "all" /\ v.shelfFilter \notin ReadingStatus THEN SelectSeq(r2, LAMBDA book : book.shelf = Some(v.shelfFilter)) ELSE IF v.shelfFilter \in ReadingStatus THEN SelectSeq(r2, LAMBDA book : book.status = v.shelfFilter) ELSE r2
        r4 == IF IsSome(v.tagFilter) /\ Val(v.tagFilter) # <<>> THEN SelectSeq(r3, LAMBDA book : \E k \in 1 .. Len(book.tags) : book.tags[k] = Val(v.tagFilter)) ELSE r3
    IN r4

RECURSIVE Sum(_)
\* reviews.reduce((acc, review) => acc + review.rating, 0)
Sum(ratings) == IF ratings = <<>> THEN 0 ELSE Head(ratings) + Sum(Tail(ratings))

Sign(x) == IF x < 0 THEN 0 - 1 ELSE IF x > 0 THEN 1 ELSE 0

\* the sign of getAverageRating(a) - getAverageRating(b): the averages are
\* sum / length, or 0 for a book without reviews
CompareRating(a, b) ==
    LET na == IF a.reviews = <<>> THEN 1 ELSE Len(a.reviews)
        nb == IF b.reviews = <<>> THEN 1 ELSE Len(b.reviews)
    IN Sign(Sum(a.reviews) * nb - Sum(b.reviews) * na)

\* the place of a character in the collation order: letters in alphabetical
\* order, the lower-case letter before its upper-case letter
Primary(c) == CASE c \in {"a", "A"} -> 1 [] c \in {"b", "B"} -> 2 [] OTHER -> 3

Tertiary(c) == IF c \in {"A", "B"} THEN 1 ELSE 0

RECURSIVE Lex(_, _)
\* the sign of the first difference of two sequences of ranks
Lex(x, y) == IF x = <<>> THEN (IF y = <<>> THEN 0 ELSE 0 - 1) ELSE IF y = <<>> THEN 1 ELSE IF Head(x) # Head(y) THEN Sign(Head(x) - Head(y)) ELSE Lex(Tail(x), Tail(y))

\* String.prototype.localeCompare: the letters decide, the case breaks ties
localeCompare(x, y) ==
    LET byLetter == Lex([k \in DOMAIN x |-> Primary(x[k])], [k \in DOMAIN y |-> Primary(y[k])])
        byCase == Lex([k \in DOMAIN x |-> Tertiary(x[k])], [k \in DOMAIN y |-> Tertiary(y[k])])
    IN IF byLetter # 0 THEN byLetter ELSE byCase

\* a comparator that ignores the sort direction
ComparatorAscending(a, b, v) == CASE v.sortBy = "dateAdded" -> Sign(a.dateAdded - b.dateAdded) [] v.sortBy = "rating" -> CompareRating(a, b) [] v.sortBy = "title" -> localeCompare(a.title, b.title) [] v.sortBy = "author" -> localeCompare(a.author, b.author)

\* the comparator filteredBooks hands to Array.prototype.sort
Comparator(a, b, v) ==
    LET comparison == CASE v.sortBy = "dateAdded" -> Sign(a.dateAdded - b.dateAdded)
                        [] v.sortBy = "rating" -> CompareRating(a, b)
                        [] v.sortBy = "title" -> localeCompare(a.title, b.title)
                        [] v.sortBy = "author" -> localeCompare(a.author, b.author)
    IN IF v.sortDirection = "asc" THEN comparison ELSE 0 - comparison

RECURSIVE SortTiesReversed(_, _)
\* a sort that puts each element in front of the elements it compares equal to
SortTiesReversed(s, v) ==
    IF s = <<>> THEN <<>>
    ELSE LET front == SortTiesReversed(SubSeq(s, 1, Len(s) - 1), v)
             x == s[Len(s)]
             keep == {k \in 0 .. Len(front) : \A j \in 1 .. k : Comparator(front[j], x, v) < 0}
             at == CHOOSE k \in keep : \A j \in keep : j <= k
         IN SubSeq(front, 1, at) \o <<x>> \o SubSeq(front, at + 1, Len(front))

\* a sort that hands back every element twice
SortDoubling(s, v) == s \o s

RECURSIVE ArraySort(_, _)
\* Array.prototype.sort, a stable sort: each element goes behind the elements
\* that do not compare greater than it
ArraySort(s, v) ==
    IF s = <<>> THEN <<>>
    ELSE LET front == ArraySort(SubSeq(s, 1, Len(s) - 1), v)
             x == s[Len(s)]
             keep == {k \in 0 .. Len(front) : \A j \in 1 .. k : Comparator(front[j], x, v) <= 0}
             at == CHOOSE k \in keep : \A j \in keep : j <= k
         IN SubSeq(front, 1, at) \o <<x>> \o SubSeq(front, at + 1, Len(front))

\* the value of the filteredBooks memo
filteredBooks(bs, v) == ArraySort(Filtered(bs, v), v)

(* ------------------------------------------------------------------ *)
(* Initial states                                                      *)
(* ------------------------------------------------------------------ *)
\* the useState defaults of the search box, the filters and the sort controls
initialView == [searchQuery |-> <<>>, statusFilter |-> "all", shelfFilter |-> "all", tagFilter |-> None, sortBy |-> "dateAdded", sortDirection |-> "desc"]

initialReadingGoal == [year |-> FirstYear, target |-> DefaultTarget, current |-> InitialCurrent]

\* API mode: an empty store, the App mounted and loadData running
InitApi ==
    /\ mode = "api"
    /\ year = FirstYear
    /\ nextId = [book |-> 1, shelf |-> 1]
    /\ dbBooks = <<>>
    /\ dbShelves = {}
    /\ dbGoals = <<>>
    /\ books = <<>>
    /\ customShelves = <<>>
    /\ readingGoal = [year |-> FirstYear, target |-> DefaultTarget, current |-> 0]
    /\ isLoading = TRUE
    /\ handlers = <<H("load", "load_fetch", 0, NoUpdates, NoForm, 0)>>
    /\ view = initialView
    /\ rendered = <<>>
    /\ stats = NoStats
    /\ response = NoResponse

\* localStorage mode: nothing saved yet, the App starts from the initial data
InitLocal ==
    /\ mode = "local"
    /\ year = FirstYear
    /\ nextId = [book |-> NumInitial + 1, shelf |-> 1]
    /\ dbBooks = <<>>
    /\ dbShelves = {}
    /\ dbGoals = <<>>
    /\ books = initialBooks
    /\ customShelves = <<>>
    /\ readingGoal = initialReadingGoal
    /\ isLoading = FALSE
    /\ handlers = <<>>
    /\ view = initialView
    /\ rendered = <<>>
    /\ stats = NoStats
    /\ response = NoResponse

Init == InitApi \/ InitLocal

(* ------------------------------------------------------------------ *)
(* Spec: one session, one handler at a time, either persistence mode:  *)
(* books are added, change status and are deleted, the goal target is  *)
(* set, the page is reloaded and the year changes                      *)
(* ------------------------------------------------------------------ *)
Next ==
    \/ handleAddBook(1, {})
    \/ handleChangeStatus(1)
    \/ handleDeleteBook(1)
    \/ handleUpdateGoal(1)
    \/ Reload
    \/ NewYear
    \/ (\E i \in 1 .. Len(handlers) : PutFind(i) \/ PutUpdate(i) \/ PutResp(i))
    \/ (\E i \in 1 .. Len(handlers) : DeleteFind(i) \/ DeleteRow(i) \/ DeleteResp(i))
    \/ (\E i \in 1 .. Len(handlers) : PostCreate(i) \/ PostResp(i))
    \/ (\E i \in 1 .. Len(handlers) : SyncCountStep(i) \/ SyncUpsert(i) \/ SyncResp(i))
    \/ (\E i \in 1 .. Len(handlers) : LoadFetch(i) \/ GoalGetFind(i) \/ GoalGetCreate(i) \/ LoadResp(i))
    \/ (\E i \in 1 .. Len(handlers) : GoalPutCount(i) \/ GoalPutUpsert(i))
    \/ handleAddBookLocal({})
    \/ handleChangeStatusLocal
    \/ handleDeleteBookLocal
    \/ handleUpdateGoalLocal

Spec == Init /\ [][Next]_vars

(* ------------------------------------------------------------------ *)
(* RaceSpec: one API-mode session whose status-edit and delete         *)
(* handlers overlap: up to MaxInflight of them run at once, every      *)
(* await is a point where another handler or request may take a step   *)
(* ------------------------------------------------------------------ *)
\* the handlers in flight are status edits and deletions only
OnlyEditsInFlight == \A j \in 1 .. Len(handlers) : handlers[j].kind \in {"edit", "delete"}

RaceNext ==
    \/ handleAddBook(1, {})
    \/ (OnlyEditsInFlight /\ handleChangeStatus(MaxInflight))
    \/ (OnlyEditsInFlight /\ handleDeleteBook(MaxInflight))
    \/ (\E i \in 1 .. Len(handlers) : PutFind(i) \/ PutUpdate(i) \/ PutResp(i))
    \/ (\E i \in 1 .. Len(handlers) : DeleteFind(i) \/ DeleteRow(i) \/ DeleteResp(i))
    \/ (\E i \in 1 .. Len(handlers) : PostCreate(i) \/ PostResp(i))
    \/ (\E i \in 1 .. Len(handlers) : SyncCountStep(i) \/ SyncUpsert(i) \/ SyncResp(i))
    \/ (\E i \in 1 .. Len(handlers) : LoadFetch(i) \/ GoalGetFind(i) \/ GoalGetCreate(i) \/ LoadResp(i))

RaceSpec == InitApi /\ [][RaceNext]_vars

(* ------------------------------------------------------------------ *)
(* ProgressSpec: one session, one handler at a time, either mode:      *)
(* books with page counts are added, change status, have their         *)
(* progress set by the slider and their page count edited              *)
(* ------------------------------------------------------------------ *)
Pages == 1 .. MaxPages

ProgressNext ==
    \/ handleAddBook(1, Pages)
    \/ handleChangeStatus(1)
    \/ handleUpdateProgress(1)
    \/ handleSaveBookEdit(1, Pages)
    \/ (\E i \in 1 .. Len(handlers) : PutFind(i) \/ PutUpdate(i) \/ PutResp(i))
    \/ (\E i \in 1 .. Len(handlers) : PostCreate(i) \/ PostResp(i))
    \/ (\E i \in 1 .. Len(handlers) : SyncCountStep(i) \/ SyncUpsert(i) \/ SyncResp(i))
    \/ (\E i \in 1 .. Len(handlers) : LoadFetch(i) \/ GoalGetFind(i) \/ GoalGetCreate(i) \/ LoadResp(i))
    \/ handleAddBookLocal(Pages)
    \/ handleChangeStatusLocal
    \/ handleUpdateProgressLocal
    \/ handleSaveBookEditLocal(Pages)

ProgressSpec == Init /\ [][ProgressNext]_vars

(* ------------------------------------------------------------------ *)
(* ShelfSpec: one session, one handler at a time, either mode: custom  *)
(* shelves are created and deleted, books are added to a shelf and     *)
(* moved between shelves                                               *)
(* ------------------------------------------------------------------ *)
ShelfNext ==
    \/ handleAddBook(1, {})
    \/ handleSaveBookEdit(1, {})
    \/ handleCreateShelf(1)
    \/ handleDeleteShelf(1)
    \/ (\E i \in 1 .. Len(handlers) : PutFind(i) \/ PutUpdate(i) \/ PutResp(i))
    \/ (\E i \in 1 .. Len(handlers) : PostCreate(i) \/ PostResp(i))
    \/ (\E i \in 1 .. Len(handlers) : SyncCountStep(i) \/ SyncUpsert(i) \/ SyncResp(i))
    \/ (\E i \in 1 .. Len(handlers) : LoadFetch(i) \/ GoalGetFind(i) \/ GoalGetCreate(i) \/ LoadResp(i))
    \/ (\E i \in 1 .. Len(handlers) : ShelfCreate(i) \/ ShelfCreateResp(i))
    \/ (\E i \in 1 .. Len(handlers) : ShelfDeleteFind(i) \/ ShelfDeleteRow(i) \/ ShelfDeleteResp(i))
    \/ handleAddBookLocal({})
    \/ handleSaveBookEditLocal({})
    \/ handleCreateShelfLocal
    \/ handleDeleteShelfLocal

ShelfSpec == Init /\ [][ShelfNext]_vars

(* ------------------------------------------------------------------ *)
(* FilterSpec: the view builder over a book collection: the collection *)
(* is any selection of catalogue books in any order, the user types a  *)
(* query, picks filters and sort controls, the view is recomputed      *)
(* ------------------------------------------------------------------ *)
\* books in the shape the view builder reads: strings as character sequences,
\* reviews as their ratings
Catalogue == <<
    [id |-> 1, title |-> <<"A", "b">>, author |-> <<"c">>, tags |-> <<<<"a">>>>, status |-> "read", shelf |-> None, dateAdded |-> 1, reviews |-> <<5>>],
    [id |-> 2, title |-> <<"c">>, author |-> <<"B">>, tags |-> <<>>, status |-> "reading", shelf |-> Some("s1"), dateAdded |-> 2, reviews |-> <<>>],
    [id |-> 3, title |-> <<"c">>, author |-> <<"c">>, tags |-> <<<<"A", "b">>, <<"c">>>>, status |-> "want_to_read", shelf |-> Some("s2"), dateAdded |-> 2, reviews |-> <<4, 5>>],
    [id |-> 4, title |-> <<"a">>, author |-> <<"A">>, tags |-> <<<<"A">>>>, status |-> "read", shelf |-> Some("s1"), dateAdded |-> 3, reviews |-> <<3>>],
    [id |-> 5, title |-> <<"b", "a">>, author |-> <<"b">>, tags |-> <<<<"a">>, <<"A">>>>, status |-> "reading", shelf |-> None, dateAdded |-> 1, reviews |-> <<4, 4>>]>>

\* the collections: up to MaxBooks different catalogue books, in any order
Collections == {[k \in 1 .. Len(pick) |-> Catalogue[pick[k]]] : pick \in {p \in UNION {[1 .. n -> 1 .. Len(Catalogue)] : n \in 0 .. MaxBooks} : \A i, j \in DOMAIN p : i # j => p[i] # p[j]}}

Queries == {<<>>, <<"a">>, <<"B">>, <<"a", "B">>, <<"c">>}

StatusFilters == {"all"} \cup ReadingStatus

ShelfFilters == {"all"} \cup ReadingStatus \cup {"s1", "s2"}

TagFilters == {None, Some(<<>>), Some(<<"a">>), Some(<<"A">>), Some(<<"b">>)}

SortOptions == {"dateAdded", "rating", "title", "author"}

InitFilter ==
    /\ mode = "local"
    /\ year = FirstYear
    /\ nextId = [book |-> Len(Catalogue) + 1, shelf |-> 1]
    /\ dbBooks = <<>>
    /\ dbShelves = {}
    /\ dbGoals = <<>>
    /\ books \in Collections
    /\ customShelves = <<>>
    /\ readingGoal = initialReadingGoal
    /\ isLoading = FALSE
    /\ handlers = <<>>
    /\ view = initialView
    /\ rendered = filteredBooks(books, initialView)
    /\ stats = NoStats
    /\ response = NoResponse

\* a control changes its part of the view state and the memo is recomputed
SetView(v) ==
    /\ v # view
    /\ view' = v
    /\ rendered' = filteredBooks(books, v)
    /\ UNCHANGED <<mode, year, nextId, dbVars, clientVars, handlers, stats, response>>

setSearchQuery == \E q \in Queries : SetView([view EXCEPT !.searchQuery = q])

setStatusFilter == \E f \in StatusFilters : SetView([view EXCEPT !.statusFilter = f])

setShelfFilter == \E f \in ShelfFilters : SetView([view EXCEPT !.shelfFilter = f])

setTagFilter == \E t \in TagFilters : SetView([view EXCEPT !.tagFilter = t])

setSortBy == \E o \in SortOptions : SetView([view EXCEPT !.sortBy = o])

setSortDirection == \E d \in {"asc", "desc"} : SetView([view EXCEPT !.sortDirection = d])

FilterNext ==
    \/ setSearchQuery
    \/ setStatusFilter
    \/ setShelfFilter
    \/ setTagFilter
    \/ setSortBy
    \/ setSortDirection

FilterSpec == InitFilter /\ [][FilterNext]_vars

(* ------------------------------------------------------------------ *)
(* The reading goal as a cache of the number of books read             *)
(* ------------------------------------------------------------------ *)
\* no request is in flight
Quiescent == handlers = <<>>

\* C1: in every quiescent state of a session of book creations, status edits,
\* deletions, goal reads and goal-target updates, the goal stored for the
\* current year has current = the number of books whose status is read
C1_CurrentIsReadCount == (mode = "api" /\ Quiescent /\ year \in DOMAIN dbGoals) => dbGoals[year].current = CountRead(dbBooks)

\* C2: whatever the interleaving of overlapping status-edit and delete
\* handlers, once every request has completed the stored current and the
\* client's readingGoal.current both equal the number of read books in the store
C2_SettledAfterOverlap == (mode = "api" /\ Quiescent /\ ~isLoading /\ year \in DOMAIN dbGoals) => (dbGoals[year].current = CountRead(dbBooks) /\ readingGoal.current = CountRead(dbBooks))

\* C3: sync stores the count of all books with status read, whatever the year
\* of their dateAdded, and every code path that implements sync stores that
\* same count
C3_SyncCountsAllRead == SyncCount(dbBooks, year) = CountRead(dbBooks) /\ GoalsSyncCount(dbBooks, year) = CountRead(dbBooks)

\* handler i takes the upsert step of POST /reading-goal/sync
SyncUpsertTaken(i) == AtPc(i, "sync_upsert") /\ Len(handlers') >= i /\ handlers'[i].pc = "sync_resp"

\* what the upsert step of handler i may change
SyncFrame(i) ==
    LET y == handlers[i].yr
    IN /\ DOMAIN dbGoals' = DOMAIN dbGoals \cup {y}
       /\ \A z \in DOMAIN dbGoals \ {y} : dbGoals'[z] = dbGoals[z]
       /\ dbGoals'[y].current = CountRead(dbBooks)
       /\ (y \in DOMAIN dbGoals => dbGoals'[y].target = dbGoals[y].target)
       /\ (y \notin DOMAIN dbGoals => dbGoals'[y].target = 24)
       /\ handlers'[i].resGoal = [year |-> y, target |-> dbGoals'[y].target, current |-> CountRead(dbBooks)]
       /\ UNCHANGED <<dbBooks, dbShelves, books, customShelves, readingGoal>>

\* C4: sync overwrites only current: the goal record of the year keeps its
\* target, the records of other years are untouched, a missing record is
\* created with target 24, and current is the recount of the read books
C4_SyncOverwritesOnlyCurrent == [][\A i \in 1 .. Len(handlers) : SyncUpsertTaken(i) => SyncFrame(i)]_vars

\* a sync has just created the goal record of a new year while no book is read
C4_SyncCreatedGoal == \E i \in 1 .. Len(handlers) : /\ handlers[i].kind = "edit" /\ handlers[i].pc = "sync_resp" /\ handlers[i].yr = FirstYear + 1 /\ readingGoal.year = FirstYear /\ CountRead(dbBooks) = 0 /\ dbGoals[FirstYear + 1] = [target |-> 24, current |-> 0]

\* the persistent book collection of the running mode, by book id
Persisted == IF mode = "api" THEN dbBooks ELSE [id \in Ids(books) |-> Find(books, id)]

\* this step deletes a book or moves the status of a book to or from read
GoalMutation == \E id \in DOMAIN Persisted : id \notin DOMAIN Persisted' \/ (Persisted'[id].status # Persisted[id].status /\ "read" \in {Persisted[id].status, Persisted'[id].status})

\* handler i has written a status edit or a deletion and has not yet finished its sync
OwesSync(i) ==
    \/ (handlers[i].kind = "edit" /\ handlers[i].pc = "put_resp" /\ handlers[i].upd.status.k = "val")
    \/ (handlers[i].kind = "delete" /\ handlers[i].pc = "del_resp")
    \/ (handlers[i].kind \in {"edit", "delete"} /\ handlers[i].pc \in {"sync_count", "sync_upsert"})

\* the write of a handler is followed by its sync
SyncFollows ==
    /\ (GoalMutation => (\E i \in 1 .. Len(handlers') : OwesSync(i)'))
    /\ (\A i \in 1 .. Len(handlers) : (OwesSync(i) /\ handlers' # handlers) => (Len(handlers') >= i /\ (OwesSync(i)' \/ (handlers'[i].pc = "sync_resp" /\ dbGoals'[handlers'[i].yr].current = handlers'[i].n))))

\* C5: every book edit that moves a status to or from read, and every book
\* deletion, is done by a handler that goes on to sync the goal before it
\* finishes: the handler is still running after the write and it cannot
\* finish before its sync has stored the recount
C5_MutationIsFollowedBySync == [][SyncFollows]_vars

(* ------------------------------------------------------------------ *)
(* Progress along the status of a book                                 *)
(* ------------------------------------------------------------------ *)
\* the client's book collection, by book id
ClientById == [id \in Ids(books) |-> Find(books, id)]

\* this step completes changeStatus(id, want_to_read): in API mode the handler
\* receives the answer of its PUT, in localStorage mode the book changes status
ChangedToWantToRead(id) ==
    \/ (mode = "api" /\ \E i \in 1 .. Len(handlers) : At(i, "edit", "put_resp") /\ handlers[i].id = id /\ handlers[i].upd.status = Value("want_to_read") /\ handlers' # handlers)
    \/ (mode = "local" /\ id \in Ids(books') /\ ClientById[id].status # "want_to_read" /\ ClientById'[id].status = "want_to_read")

\* C6: after changeStatus(book, want_to_read) has completed, the progress of
\* the book is absent in the client state and in the backing store, whatever
\* its previous status and progress were
C6_WantToReadClearsProgress == [][\A id \in Ids(books) : ChangedToWantToRead(id) => (ClientById'[id].progress = None /\ (mode = "api" => dbBooks'[id].progress = None))]_vars

\* a request that sets the progress of book id to p is being served, or (in
\* localStorage mode, where the handler is one step) p is a slider position
UserSet(id, old, p) ==
    \/ (mode = "api" /\ \E i \in 1 .. Len(handlers) : handlers[i].kind = "edit" /\ handlers[i].id = id /\ handlers[i].upd.status.k = "absent" /\ handlers[i].upd.progress.k = "val" /\ p = Some(handlers[i].upd.progress.v))
    \/ (mode = "local" /\ IsSome(old.totalPages) /\ \E v \in 0 .. Val(old.totalPages) : p = Some(v))

\* the progress of every book of a collection along want_to_read -> reading -> read
ProgressPath(old, new) ==
    \A id \in DOMAIN new :
        /\ (id \notin DOMAIN old /\ new[id].status = "want_to_read") => new[id].progress = None
        /\ (id \in DOMAIN old /\ old[id].status = "want_to_read" /\ old[id].progress = None /\ new[id].status \in {"want_to_read", "reading"}) => new[id].progress = None
        /\ (id \in DOMAIN old /\ old[id].status = "reading" /\ new[id].status = "reading") => (new[id].progress = old[id].progress \/ UserSet(id, old[id], new[id].progress))
        /\ (id \in DOMAIN old /\ old[id].status # "read" /\ new[id].status = "read" /\ IsSome(new[id].totalPages)) => new[id].progress = new[id].totalPages

OnlyShelfCleared(old, new, s) == DOMAIN new = DOMAIN old /\ \A k \in DOMAIN old : new[k] = IF old[k].shelf = Some(s) THEN [old[k] EXCEPT !.shelf = None] ELSE old[k]

Range(f) == {f[k] : k \in DOMAIN f}

\* C8: deleteShelf(s) leaves every book that referenced s without a shelf,
\* deletes no book, and changes no other field of any book, references to
\* other shelves included; in the store and in the client's collection
C8_DeleteShelfFrame == [][(\A s \in dbShelves \ dbShelves' : OnlyShelfCleared(dbBooks, dbBooks', s)) /\ (\A s \in Range(customShelves) \ Range(customShelves') : OnlyShelfCleared(books, books', s) /\ Ids(books') = Ids(books))]_vars

\* a shelf has just been deleted: the book that was on it has no shelf, and
\* another book is still on the other shelf
C8_ShelfDeleted == \E i \in 1 .. Len(handlers) : /\ At(i, "rmshelf", "shelf_gone") /\ Len(books) = 2 /\ \E a, b \in 1 .. 2 : books[a].shelf = Some(handlers[i].id) /\ dbBooks[books[a].id].shelf = None /\ books[b].shelf # None /\ books[b].shelf # books[a].shelf /\ dbBooks[books[b].id].shelf = books[b].shelf

(* ------------------------------------------------------------------ *)
(* The filtered view                                                   *)
(* ------------------------------------------------------------------ *)
\* C9: whatever the collection, the query, the filters and the sort controls,
\* the filtered view contains only books of the input collection and contains
\* each of them at most once
C9_ViewIsSubCollection == (\A k \in 1 .. Len(rendered) : \E j \in 1 .. Len(books) : books[j] = rendered[k]) /\ (\A k, j \in 1 .. Len(rendered) : k # j => rendered[k].id # rendered[j].id)

\* a view that shows some books of a collection, in another order, and not all
C9_ProperSubCollection == Len(books) = MaxBooks /\ Len(rendered) = 1 /\ rendered[1] = books[2] /\ view.sortBy = "title" /\ view.statusFilter = "read"

\* two characters are the same letter, whatever their case
SameLetter(c, d) == c = d \/ {c, d} = {"a", "A"} \/ {c, d} = {"b", "B"}

\* str contains sub, case ignored
ContainsIgnoringCase(str, sub) == \E k \in 0 .. (Len(str) - Len(sub)) : \A j \in 1 .. Len(sub) : SameLetter(str[k + j], sub[j])

\* the conjunction of the active predicates on a book
Satisfies(b, v) ==
    /\ (v.searchQuery = <<>> \/ ContainsIgnoringCase(b.title, v.searchQuery) \/ ContainsIgnoringCase(b.author, v.searchQuery) \/ \E k \in 1 .. Len(b.tags) : ContainsIgnoringCase(b.tags[k], v.searchQuery))
    /\ (v.statusFilter = "all" \/ b.status = v.statusFilter)
    /\ (v.shelfFilter = "all" \/ (v.shelfFilter \in {"want_to_read", "reading", "read"} /\ b.status = v.shelfFilter) \/ b.shelf = Some(v.shelfFilter))
    /\ (v.tagFilter \in {None, Some(<<>>)} \/ \E k \in 1 .. Len(b.tags) : b.tags[k] = Val(v.tagFilter))

\* C10: the books of the filtered view are exactly the input books that
\* satisfy all active predicates: the query (case-insensitive substring of the
\* title, the author or a tag), the status filter, the shelf filter (a built-in
\* status id or a custom shelf) and the tag filter (exact, case-sensitive)
C10_ViewIsConjunction == {rendered[k] : k \in 1 .. Len(rendered)} = {books[j] : j \in {i \in 1 .. Len(books) : Satisfies(books[i], view)}}

\* the query matches a book only when case is ignored, and the tag filter
\* keeps out a book whose tag differs from it in case only
C10_CaseMatters == view.searchQuery = <<"B">> /\ view.tagFilter = Some(<<"A">>) /\ Len(books) = 2 /\ {books[1].id, books[2].id} = {1, 5} /\ Len(rendered) = 1 /\ rendered[1].id = 5

\* C11: when the status filter and the shelf filter name two different
\* built-in statuses the view is empty, and a shelf filter that is a built-in
\* status id s, with no status filter, gives the view of status filter s with
\* no shelf filter
C11_BuiltInShelfIsStatus ==
    /\ (view.statusFilter \in ReadingStatus /\ view.shelfFilter \in ReadingStatus /\ view.statusFilter # view.shelfFilter) => rendered = <<>>
    /\ (view.shelfFilter \in ReadingStatus /\ view.statusFilter = "all") => rendered = filteredBooks(books, [view EXCEPT !.statusFilter = view.shelfFilter, !.shelfFilter = "all"])

\* a reading book and a read book, status filter reading, shelf filter read
C11_TwoStatusesEmptyView == view.statusFilter = "reading" /\ view.shelfFilter = "read" /\ Len(books) = 2 /\ books[1].status = "reading" /\ books[2].status = "read" /\ view.searchQuery = <<>> /\ rendered = <<>>

\* the view under the current filters and sort key, in the given direction
ViewIn(d) == filteredBooks(books, [view EXCEPT !.sortDirection = d])

Reverse(s) == [k \in 1 .. Len(s) |-> s[Len(s) + 1 - k]]

\* no two books of a sequence have equal sort keys
NoTies(s) == \A k, j \in 1 .. Len(s) : k # j => Comparator(s[k], s[j], view) # 0

\* C12 as stated: the ascending view, reversed, is the descending view, also
\* when several books have equal sort keys
C12_ReverseOfAscIsDesc == Reverse(ViewIn("asc")) = ViewIn("desc")

\* C12 amended: the ascending view, reversed, is the descending view whenever
\* no two books of the view have equal sort keys; in every case the two views
\* hold the same books
C12_ReverseOfAscIsDescNoTies == (NoTies(ViewIn("asc")) => Reverse(ViewIn("asc")) = ViewIn("desc")) /\ {ViewIn("asc")[k] : k \in 1 .. Len(ViewIn("asc"))} = {ViewIn("desc")[k] : k \in 1 .. Len(ViewIn("desc"))}

\* two books with different titles, sorted by title in descending order into
\* the reverse of their ascending order
C12_TwoBooksReversed == view.sortBy = "title" /\ view.sortDirection = "desc" /\ Len(rendered) = 2 /\ NoTies(rendered) /\ rendered = Reverse(ViewIn("asc")) /\ rendered # books

\* the place of a book in the input collection
IndexIn(bs, b) == CHOOSE k \in 1 .. Len(bs) : bs[k] = b

\* C13: the view is a function of the collection and the view state, and the
\* sort is stable: books whose sort keys compare equal stand in their order of
\* the input collection, in both directions
C13_StableAndDetermined ==
    /\ rendered = filteredBooks(books, view)
    /\ \A k, j \in 1 .. Len(rendered) : (k < j /\ Comparator(rendered[k], rendered[j], view) = 0) => IndexIn(books, rendered[k]) < IndexIn(books, rendered[j])
    /\ \A k, j \in 1 .. Len(rendered) : k < j => Comparator(rendered[k], rendered[j], view) <= 0

\* two books by the same author, sorted by author in descending order, stand
\* in their input order
C13_TieKeepsInputOrder == view.sortBy = "author" /\ view.sortDirection = "desc" /\ Len(books) = 2 /\ books[1].id = 3 /\ books[2].id = 1 /\ rendered = books

(* ------------------------------------------------------------------ *)
(* Reviews: the review routes of the backend, the add-book form, the   *)
(* review modal and the review handlers of the App in both modes.      *)
(* A book is its id and the ratings of its reviews, oldest first; a    *)
(* review is addressed by its position.                                *)
(* ------------------------------------------------------------------ *)
MaxReviews == 2

\* StarRating: maxRating = 5, a click on star index gives index + 1
MaxRating == 5

\* the stars the model clicks
StarChoices == {MaxRating}

\* the rating of a request body: missing, or a number
RequestRatings == {None} \cup {Some(r) : r \in {0, MaxRating + 1}}

\* rating || 0
RatingOrZero(rating) == IF rating = None \/ Val(rating) = 0 THEN 0 ELSE Val(rating)

RECURSIVE WithReview(_, _, _)
\* prev.map(book => book.id === bookId ? { ...book, reviews: [...book.reviews, newReview] } : book)
WithReview(s, id, rating) == IF s = <<>> THEN <<>> ELSE <<IF Head(s).id = id THEN [Head(s) EXCEPT !.reviews = Append(@, rating)] ELSE Head(s)>> \o WithReview(Tail(s), id, rating)

RECURSIVE WithRating(_, _, _, _)
\* reviews.map(review => review.id === reviewId ? updatedReview : review) in the book bookId
WithRating(s, id, k, rating) == IF s = <<>> THEN <<>> ELSE <<IF Head(s).id = id /\ k \in 1 .. Len(Head(s).reviews) THEN [Head(s) EXCEPT !.reviews[k] = rating] ELSE Head(s)>> \o WithRating(Tail(s), id, k, rating)

HasReview(s, id, k) == \E j \in 1 .. Len(s) : s[j].id = id /\ k \in 1 .. Len(s[j].reviews)

\* router.post('/'): the initial review of a new book
PostBook(db, id, review, rating) == [status |-> 201, db |-> <<[id |-> id, reviews |-> IF review THEN <<RatingOrZero(rating)>> ELSE <<>>]>> \o db]

\* router.post('/:id/reviews')
PostReview(db, id, content, rating) ==
    IF ~content THEN [status |-> 400, db |-> db]
    ELSE IF id \notin Ids(db) THEN [status |-> 404, db |-> db]
    ELSE [status |-> 201, db |-> WithReview(db, id, RatingOrZero(rating))]

\* router.put('/:bookId/reviews/:reviewId')
PutReview(db, id, k, rating) ==
    IF ~HasReview(db, id, k) THEN [status |-> 404, db |-> db]
    ELSE [status |-> 200, db |-> IF IsSome(rating) THEN WithRating(db, id, k, Val(rating)) ELSE db]

\* getAverageRating: sum / length as the fraction it is, NaN when a rating is
\* not a number
NaN == [num |-> 0, den |-> 0]

getAverageRating(book) ==
    IF book.reviews = <<>> THEN [num |-> 0, den |-> 1]
    ELSE IF \E k \in 1 .. Len(book.reviews) : book.reviews[k] \notin Int THEN NaN
    ELSE [num |-> Sum(book.reviews), den |-> Len(book.reviews)]

\* the App loaded over an empty library, in either mode
InitIdle ==
    /\ mode \in {"api", "local"}
    /\ year = FirstYear
    /\ nextId = [book |-> 1, shelf |-> 1]
    /\ dbBooks = <<>>
    /\ dbShelves = {}
    /\ dbGoals = <<>>
    /\ books = <<>>
    /\ customShelves = <<>>
    /\ readingGoal = initialReadingGoal
    /\ isLoading = FALSE
    /\ handlers = <<>>
    /\ view = initialView
    /\ rendered = <<>>
    /\ stats = NoStats
    /\ response = NoResponse

ReviewFrame == UNCHANGED <<mode, year, dbShelves, dbGoals, customShelves, readingGoal, isLoading, handlers, view, rendered, stats>>

\* AddBookForm handleSubmit, then handleAddBook: the form needs a title and an
\* author, the review text and the stars are optional
submitAddBook ==
    \E review \in BOOLEAN, rating \in {0} \cup StarChoices :
        /\ nextId.book <= MaxBooks
        /\ nextId' = [nextId EXCEPT !.book = @ + 1]
        /\ IF mode = "api"
           THEN LET r == PostBook(dbBooks, nextId.book, review, Some(rating))
                IN /\ dbBooks' = r.db
                   /\ books' = <<r.db[1]>> \o books
                   /\ response' = [status |-> r.status]
           ELSE /\ books' = <<[id |-> nextId.book, reviews |-> IF review THEN <<rating>> ELSE <<>>]>> \o books
                /\ response' = NoResponse
                /\ UNCHANGED dbBooks
        /\ ReviewFrame

\* ReviewModal handleAddReview, then handleAddReview of the App: the modal
\* needs a text and a clicked star
submitAddReview ==
    \E j \in 1 .. Len(books), rating \in StarChoices :
        /\ Len(books[j].reviews) < MaxReviews
        /\ IF mode = "api"
           THEN LET r == PostReview(dbBooks, books[j].id, TRUE, Some(rating))
                IN /\ dbBooks' = r.db
                   /\ response' = [status |-> r.status]
                   /\ books' = IF r.status = 201 THEN WithReview(books, books[j].id, RatingOrZero(Some(rating))) ELSE books
           ELSE /\ books' = WithReview(books, books[j].id, rating)
                /\ response' = NoResponse
                /\ UNCHANGED dbBooks
        /\ UNCHANGED nextId
        /\ ReviewFrame

\* ReviewItem save, then handleEditReview of the App: the rating is the one
\* the review had or a clicked star
submitEditReview ==
    \E j \in 1 .. Len(books) : \E k \in 1 .. Len(books[j].reviews) : \E rating \in {books[j].reviews[k]} \cup StarChoices :
        /\ IF mode = "api"
           THEN LET r == PutReview(dbBooks, books[j].id, k, Some(rating))
                IN /\ dbBooks' = r.db
                   /\ response' = [status |-> r.status]
                   /\ books' = IF r.status = 200 THEN WithRating(books, books[j].id, k, rating) ELSE books
           ELSE /\ books' = WithRating(books, books[j].id, k, rating)
                /\ response' = NoResponse
                /\ UNCHANGED dbBooks
        /\ UNCHANGED nextId
        /\ ReviewFrame

\* a POST /api/books request that does not come from the form
requestCreateBook ==
    \E review \in BOOLEAN, rating \in RequestRatings :
        /\ mode = "api"
        /\ nextId.book <= MaxBooks
        /\ nextId' = [nextId EXCEPT !.book = @ + 1]
        /\ LET r == PostBook(dbBooks, nextId.book, review, rating)
           IN /\ dbBooks' = r.db
              /\ response' = [status |-> r.status]
        /\ UNCHANGED books
        /\ ReviewFrame

\* a POST /api/books/:id/reviews request that does not come from the modal
requestAddReview ==
    \E id \in 1 .. MaxBooks, content \in BOOLEAN, rating \in RequestRatings :
        /\ mode = "api"
        /\ (id \in Ids(dbBooks) /\ content) => \E j \in 1 .. Len(dbBooks) : dbBooks[j].id = id /\ Len(dbBooks[j].reviews) < MaxReviews
        /\ LET r == PostReview(dbBooks, id, content, rating)
           IN /\ dbBooks' = r.db
              /\ response' = [status |-> r.status]
        /\ UNCHANGED <<books, nextId>>
        /\ ReviewFrame

\* a PUT /api/books/:bookId/reviews/:reviewId request that does not come from the modal
requestEditReview ==
    \E id \in 1 .. MaxBooks, k \in 1 .. MaxReviews, rating \in RequestRatings :
        /\ mode = "api"
        /\ dbBooks # <<>>
        /\ LET r == PutReview(dbBooks, id, k, rating)
           IN /\ dbBooks' = r.db
              /\ response' = [status |-> r.status]
        /\ UNCHANGED <<books, nextId>>
        /\ ReviewFrame

\* loadData: the book array is replaced by what GET /api/books returns
reloadBooks ==
    /\ mode = "api"
    /\ books # dbBooks
    /\ books' = dbBooks
    /\ response' = [status |-> 200]
    /\ UNCHANGED <<dbBooks, nextId>>
    /\ ReviewFrame

ReviewNext ==
    \/ submitAddBook
    \/ submitAddReview
    \/ submitEditReview
    \/ requestCreateBook
    \/ requestAddReview
    \/ requestEditReview
    \/ reloadBooks

ReviewSpec == InitIdle /\ [][ReviewNext]_vars

(* ------------------------------------------------------------------ *)
(* Statistics: the stats memo of the App header and the stats memo of  *)
(* the ReadingStats dashboard, computed from the book array. Averages  *)
(* are the exact fractions; the rounding of the floating-point         *)
(* division is not modelled.                                           *)
(* ------------------------------------------------------------------ *)
MaxCounted == 3

\* the books the statistics are computed from; the tag "constructor" is also
\* the name of a member of Object.prototype
CountedBooks == [status : {"read", "want_to_read"}, reviews : {<<>>, <<0>>, <<3>>, <<5>>, <<4, 5>>}, tags : {<<>>, <<"fiction">>, <<"fiction", "constructor">>}]

CountedCollections == UNION {[1 .. n -> CountedBooks] : n \in 0 .. MaxCounted}

Fraction(n, d) == [num |-> n, den |-> d]

\* a + b
Plus(a, b) == Fraction(a.num * b.den + b.num * a.den, a.den * b.den)

\* a / n
Over(a, n) == Fraction(a.num, a.den * n)

\* a === b for two numbers
SameNumber(a, b) == a.num * b.den = b.num * a.den

\* Math.round of a non-negative number: halves go up
MathRound(a) == (2 * a.num + a.den) \div (2 * a.den)

RECURSIVE SumOfAverages(_)
\* ratedBooks.reduce((sum, b) => sum + getAverageRating(b), 0)
SumOfAverages(bs) == IF bs = <<>> THEN Fraction(0, 1) ELSE Plus(SumOfAverages(SubSeq(bs, 1, Len(bs) - 1)), getAverageRating(bs[Len(bs)]))

\* a mean that takes every reviewed book, whatever its status
MeanOfAllReviewed(bs) == LET reviewed == SelectSeq(bs, LAMBDA b : b.reviews # <<>>) IN IF Len(reviewed) > 0 THEN Over(SumOfAverages(reviewed), Len(reviewed)) ELSE Fraction(0, 1)

\* readBooks.filter(reviews.length > 0), then the mean of the averages, or 0
avgRating(bs) == LET ratedBooks == SelectSeq(bs, LAMBDA b : b.status = "read" /\ b.reviews # <<>>) IN IF Len(ratedBooks) > 0 THEN Over(SumOfAverages(ratedBooks), Len(ratedBooks)) ELSE Fraction(0, 1)

\* tagCounts[tag] read from an object literal: an own property, else a member
\* of Object.prototype (the function Object for "constructor"), else undefined
Lookup(obj, key) == IF key \in DOMAIN obj THEN obj[key] ELSE IF key = "constructor" THEN [kind |-> "function", n |-> 0] ELSE [kind |-> "undefined", n |-> 0]

\* x || 0
OrZero(x) == IF x.kind = "undefined" \/ (x.kind = "number" /\ x.n = 0) THEN [kind |-> "number", n |-> 0] ELSE x

\* x + 1: addition for a number, otherwise the text of x followed by "1"
\* (n counts the digits appended to the text of the function)
PlusOne(x) == IF x.kind = "number" THEN [kind |-> "number", n |-> x.n + 1] ELSE [kind |-> "string", n |-> x.n + 1]

RECURSIVE CountTags(_, _)
\* book.tags.forEach(tag => { tagCounts[tag] = (tagCounts[tag] || 0) + 1 })
CountTags(tags, obj) == IF tags = <<>> THEN obj ELSE CountTags(Tail(tags), [k \in DOMAIN obj \cup {Head(tags)} |-> IF k = Head(tags) THEN PlusOne(OrZero(Lookup(obj, Head(tags)))) ELSE obj[k]])

RECURSIVE tagCounts(_, _)
\* books.forEach(book => ...), starting from {}
tagCounts(bs, obj) == IF bs = <<>> THEN obj ELSE tagCounts(Tail(bs), CountTags(Head(bs).tags, obj))

RECURSIVE ratingDist(_, _)
\* ratedBooks.forEach: the bucket Math.round(getAverageRating(book)) is
\* incremented when it is one of 1..5
ratingDist(bs, dist) ==
    IF bs = <<>> THEN dist
    ELSE LET rating == MathRound(getAverageRating(Head(bs)))
         IN ratingDist(Tail(bs), IF rating >= 1 /\ rating <= MaxRating THEN [dist EXCEPT ![rating] = @ + 1] ELSE dist)

\* the stats memo of the App header
AppStats(bs) ==
    [read |-> Len(SelectSeq(bs, LAMBDA b : b.status = "read")),
     reading |-> Len(SelectSeq(bs, LAMBDA b : b.status = "reading")),
     wantToRead |-> Len(SelectSeq(bs, LAMBDA b : b.status = "want_to_read")),
     avgRating |-> avgRating(bs)]

\* the stats memo of ReadingStats; topTags holds the entries of tagCounts,
\* all of them as the model has no more than five different tags
ReadingStats(bs) ==
    LET ratedBooks == SelectSeq(bs, LAMBDA b : b.status = "read" /\ b.reviews # <<>>)
    IN [totalRead |-> Len(SelectSeq(bs, LAMBDA b : b.status = "read")),
        totalReading |-> Len(SelectSeq(bs, LAMBDA b : b.status = "reading")),
        totalWantToRead |-> Len(SelectSeq(bs, LAMBDA b : b.status = "want_to_read")),
        avgRating |-> avgRating(bs),
        tagCounts |-> tagCounts(bs, <<>>),
        ratingDist |-> ratingDist(ratedBooks, [r \in 1 .. MaxRating |-> 0]),
        totalReviews |-> Sum([j \in 1 .. Len(bs) |-> Len(bs[j].reviews)])]

InitStats ==
    /\ mode = "local"
    /\ year = FirstYear
    /\ nextId = [book |-> 1, shelf |-> 1]
    /\ dbBooks = <<>>
    /\ dbShelves = {}
    /\ dbGoals = <<>>
    /\ books \in CountedCollections
    /\ customShelves = <<>>
    /\ readingGoal = initialReadingGoal
    /\ isLoading = FALSE
    /\ handlers = <<>>
    /\ view = initialView
    /\ rendered = <<>>
    /\ stats = NoStats
    /\ response = NoResponse

\* the App renders: its stats memo is computed from books
renderApp ==
    /\ ~stats.computed
    /\ stats' = [computed |-> TRUE, shown |-> FALSE, app |-> AppStats(books)]
    /\ UNCHANGED <<mode, year, nextId, dbVars, clientVars, handlers, view, rendered, response>>

\* the App renders ReadingStats, which computes its memo from the same books
renderReadingStats ==
    /\ stats.computed
    /\ ~stats.shown
    /\ stats' = [computed |-> TRUE, shown |-> TRUE, app |-> stats.app, dashboard |-> ReadingStats(books)]
    /\ UNCHANGED <<mode, year, nextId, dbVars, clientVars, handlers, view, rendered, response>>

StatsNext ==
    \/ renderApp
    \/ renderReadingStats

StatsSpec == InitStats /\ [][StatsNext]_vars

(* ------------------------------------------------------------------ *)
(* Titles and authors: the validation of POST /api/books and of        *)
(* PUT /api/books/:id. A row is its id, its title and its author; a    *)
(* string is a sequence of characters, " " being the whitespace.       *)
(* ------------------------------------------------------------------ *)
MaxLen == 3

\* the strings of up to MaxLen characters; a run of letters is written as one "x"
Strings == {str \in UNION {[1 .. n -> {" ", "x"}] : n \in 0 .. MaxLen} : \A k \in 1 .. Len(str) - 1 : str[k] = " " \/ str[k + 1] = " "}

\* a field of a request body: missing, null, or a string
Fields == {Absent(<<>>), Null(<<>>)} \cup {Value(str) : str \in Strings}

\* a trim that leaves the string as it is
KeepSpaces(str) == str

RECURSIVE trim(_)
\* String.prototype.trim
trim(str) ==
    IF str = <<>> THEN <<>>
    ELSE IF Head(str) = " " THEN trim(Tail(str))
    ELSE IF str[Len(str)] = " " THEN trim(SubSeq(str, 1, Len(str) - 1))
    ELSE str

\* !title || typeof title !== 'string' || title.trim().length === 0
Rejected(field) == field.k # "val" \/ field.v = <<>> \/ Len(trim(field.v)) = 0

\* router.post('/'): title and author are checked, then stored trimmed
PostNamed(db, id, title, author) ==
    IF Rejected(title) \/ Rejected(author) THEN [status |-> 400, db |-> db]
    ELSE [status |-> 201, db |-> Append(db, [id |-> id, title |-> trim(title.v), author |-> trim(author.v)])]

\* router.put('/:id'): the fields that are not undefined are checked, then
\* stored trimmed
PutNamed(db, id, title, author) ==
    IF id \notin Ids(db) THEN [status |-> 404, db |-> db]
    ELSE IF title.k # "absent" /\ (title.k # "val" \/ Len(trim(title.v)) = 0) THEN [status |-> 400, db |-> db]
    ELSE IF author.k # "absent" /\ (author.k # "val" \/ Len(trim(author.v)) = 0) THEN [status |-> 400, db |-> db]
    ELSE [status |-> 200, db |-> [j \in 1 .. Len(db) |-> IF db[j].id # id THEN db[j] ELSE [id |-> id, title |-> IF title.k = "absent" THEN db[j].title ELSE trim(title.v), author |-> IF author.k = "absent" THEN db[j].author ELSE trim(author.v)]]]

\* a POST /api/books request; response keeps the request and the status
requestPostNamed ==
    \E title \in Fields, author \in Fields :
        /\ nextId.book <= MaxBooks
        /\ LET r == PostNamed(dbBooks, nextId.book, title, author)
           IN /\ dbBooks' = r.db
              /\ nextId' = IF r.status = 201 THEN [nextId EXCEPT !.book = @ + 1] ELSE nextId
              /\ response' = [status |-> r.status, method |-> "POST", title |-> title, author |-> author]
        /\ UNCHANGED <<mode, year, dbShelves, dbGoals, clientVars, handlers, view, rendered, stats>>

\* a PUT /api/books/:id request
requestPutNamed ==
    \E id \in 1 .. MaxBooks, title \in Fields, author \in Fields :
        /\ dbBooks # <<>>
        /\ LET r == PutNamed(dbBooks, id, title, author)
           IN /\ dbBooks' = r.db
              /\ response' = [status |-> r.status, method |-> "PUT", title |-> title, author |-> author]
        /\ UNCHANGED <<mode, year, nextId, dbShelves, dbGoals, clientVars, handlers, view, rendered, stats>>

TitleNext ==
    \/ requestPostNamed
    \/ requestPutNamed

\* the backend alone: no localStorage session
InitTitle == InitIdle /\ mode = "api"

TitleSpec == InitTitle /\ [][TitleNext]_vars

(* ------------------------------------------------------------------ *)
(* Goal targets: the goal form of the sidebar and PUT /api/reading-goal *)
(* ------------------------------------------------------------------ *)
\* the target of a request body, or what parseInt makes of the goal input:
\* missing (NaN for parseInt), or an integer
RequestTargets == {None} \cup {Some(t) : t \in (0 - 1) .. MaxTarget}

\* router.put('/'): a target that is not a number or is below 0 is refused,
\* any other target is upserted with the count of the books read this year
PutGoal(goals, rows, y, target) ==
    IF target = None \/ Val(target) < 0 THEN [status |-> 400, goals |-> goals]
    ELSE [status |-> 200, goals |-> UpsertTargetCurrent(goals, y, Val(target), CountReadInYear(rows, y))]

\* handleGoalSubmit, then handleUpdateGoal of the App: the form passes on a
\* parsed input that is a number above 0, and otherwise only closes
submitGoal ==
    \E newTarget \in RequestTargets :
        /\ IsSome(newTarget) /\ Val(newTarget) > 0
        /\ IF mode = "api"
           THEN LET r == PutGoal(dbGoals, dbBooks, year, newTarget)
                IN /\ dbGoals' = r.goals
                   /\ readingGoal' = GoalJson(r.goals, year)
                   /\ response' = [status |-> r.status, target |-> newTarget]
           ELSE /\ readingGoal' = [readingGoal EXCEPT !.target = Val(newTarget)]
                /\ UNCHANGED <<dbGoals, response>>
        /\ UNCHANGED <<mode, year, nextId, dbBooks, dbShelves, books, customShelves, isLoading, handlers, view, rendered, stats>>

\* a PUT /api/reading-goal request that does not come from the form
requestPutGoal ==
    \E target \in RequestTargets :
        /\ mode = "api"
        /\ LET r == PutGoal(dbGoals, dbBooks, year, target)
           IN /\ dbGoals' = r.goals
              /\ response' = [status |-> r.status, target |-> target]
        /\ UNCHANGED <<mode, year, nextId, dbBooks, dbShelves, clientVars, handlers, view, rendered, stats>>

GoalTargetNext ==
    \/ submitGoal
    \/ requestPutGoal
    \/ NewYear

GoalTargetSpec == InitIdle /\ [][GoalTargetNext]_vars

(* ------------------------------------------------------------------ *)
(* C14: the average rating of a book                                   *)
(* ------------------------------------------------------------------ *)
StoredBooks == {dbBooks[j] : j \in 1 .. Len(dbBooks)} \cup {books[j] : j \in 1 .. Len(books)}

\* C14: for every book the create, add-review and edit-review operations can
\* produce, in the store or in the client, getAverageRating is exactly 0 when
\* the book has no reviews, lies between 0 and 5 when it has reviews, and is
\* never NaN
C14_AverageWithinRange ==
    \A b \in StoredBooks :
        LET avg == getAverageRating(b)
        IN /\ avg # NaN
           /\ b.reviews = <<>> => avg.num = 0
           /\ b.reviews # <<>> => (0 <= avg.num /\ avg.num <= MaxRating * avg.den)

(* ------------------------------------------------------------------ *)
(* C15: the rating of a stored review                                  *)
(* ------------------------------------------------------------------ *)
\* C15: after any sequence of book creations, review additions and review
\* edits, every stored review has an integer rating from 1 to 5
C15_StoredRatingsInRange == \A b \in StoredBooks : \A k \in 1 .. Len(b.reviews) : b.reviews[k] \in 1 .. MaxRating

(* ------------------------------------------------------------------ *)
(* C16: the average rating of the statistics                           *)
(* ------------------------------------------------------------------ *)
Qualifies(b) == b.status = "read" /\ b.reviews # <<>>

RECURSIVE SumOfAveragesOver(_)
\* the sum of the average ratings of the books at the positions in S
SumOfAveragesOver(S) == IF S = {} THEN Fraction(0, 1) ELSE LET j == CHOOSE x \in S : TRUE IN Plus(getAverageRating(books[j]), SumOfAveragesOver(S \ {j}))

\* C16: once the statistics are shown, averageRating times the number of read
\* books with at least one review equals the sum of those books' own average
\* ratings, it is 0 when no book qualifies, the header and the dashboard show
\* the same number, and removing the books that are not read or have no
\* review leaves it as it is
C16_AverageRatingIsMeanOverReadReviewed ==
    stats.shown =>
        LET Q == {j \in 1 .. Len(books) : Qualifies(books[j])}
            avg == stats.dashboard.avgRating
        IN /\ Q = {} => avg = Fraction(0, 1)
           /\ Q # {} => SameNumber(Fraction(avg.num * Cardinality(Q), avg.den), SumOfAveragesOver(Q))
           /\ SameNumber(stats.app.avgRating, avg)
           /\ SameNumber(avg, avgRating(SelectSeq(books, Qualifies)))

\* two read books rated 5 and 3 and an unreviewed want_to_read book: 4.0
C16_ExampleGivesFour ==
    /\ stats.shown
    /\ Len(books) = 3
    /\ books[1].status = "read" /\ books[1].reviews = <<5>>
    /\ books[2].status = "read" /\ books[2].reviews = <<3>>
    /\ books[3].status = "want_to_read" /\ books[3].reviews = <<>>
    /\ SameNumber(stats.dashboard.avgRating, Fraction(4, 1))
    /\ SameNumber(stats.app.avgRating, Fraction(4, 1))

(* ------------------------------------------------------------------ *)
(* C17: the rating distribution                                        *)
(* ------------------------------------------------------------------ *)
Clamp(r) == IF r < 1 THEN 1 ELSE IF r > MaxRating THEN MaxRating ELSE r

\* C17: once the statistics are shown, every book with at least one review,
\* whatever its status, is counted in exactly one bucket, the one of its
\* average rating rounded half-up and clamped to 1..5, so the five counters sum
\* to the number of books with at least one review
C17_EveryReviewedBookInOneBucket ==
    stats.shown =>
        LET Reviewed == {j \in 1 .. Len(books) : books[j].reviews # <<>>}
        IN /\ \A r \in 1 .. MaxRating : stats.dashboard.ratingDist[r] = Cardinality({j \in Reviewed : Clamp(MathRound(getAverageRating(books[j]))) = r})
           /\ Sum(stats.dashboard.ratingDist) = Cardinality(Reviewed)

(* ------------------------------------------------------------------ *)
(* C18: the tag frequencies                                            *)
(* ------------------------------------------------------------------ *)
RECURSIVE SumOfCounts(_, _)
SumOfCounts(obj, keys) == IF keys = {} THEN 0 ELSE LET k == CHOOSE x \in keys : TRUE IN obj[k].n + SumOfCounts(obj, keys \ {k})

\* C18: once the statistics are shown, the tag-frequency counts are numbers
\* and sum to the number of tag occurrences, the sum over all books of the
\* number of tags on the book
C18_TagCountsSumToOccurrences ==
    stats.shown =>
        LET counts == stats.dashboard.tagCounts
        IN /\ \A k \in DOMAIN counts : counts[k].kind = "number"
           /\ SumOfCounts(counts, DOMAIN counts) = Sum([j \in 1 .. Len(books) |-> Len(books[j].tags)])

(* ------------------------------------------------------------------ *)
(* C19: titles and authors of stored books                             *)
(* ------------------------------------------------------------------ *)
Spaces(str) == \A k \in 1 .. Len(str) : str[k] = " "

Trimmed(str) == str # <<>> /\ str[1] # " " /\ str[Len(str)] # " "

\* the request carries a title or an author that is a string of no
\* characters or of whitespace only
BlankName(req) == (req.title.k = "val" /\ Spaces(req.title.v)) \/ (req.author.k = "val" /\ Spaces(req.author.v))

C20_TargetStaysPositive == readingGoal.target \in Nat \ {0} /\ \A y \in DOMAIN dbGoals : dbGoals[y].target \in Nat \ {0}

(* ------------------------------------------------------------------ *)
(* Identifiers in localStorage mode: handleAddBook names a book after  *)
(* the clock, `user-${Date.now()}`. nextId.book is the millisecond the *)
(* clock shows; a book is its id, its dateAdded and its status.        *)
(* ------------------------------------------------------------------ *)
MaxClock == 3

\* `user-${Date.now()}`
ClockId(bs, now) == now

InitClock == InitIdle /\ mode = "local"

\* a millisecond passes
clockTick ==
    /\ nextId.book < MaxClock
    /\ nextId' = [nextId EXCEPT !.book = @ + 1]
    /\ UNCHANGED <<mode, year, dbVars, clientVars, handlers, viewVars>>

\* handleAddBook: the new book is named after the clock and dated today
addBookNow ==
    \E s \in ReadingStatus :
        /\ Len(books) < MaxBooks
        /\ books' = <<[id |-> ClockId(books, nextId.book), dateAdded |-> year, status |-> s]>> \o books
        /\ UNCHANGED <<mode, year, nextId, dbVars, customShelves, readingGoal, isLoading, handlers, viewVars>>

\* handleEditBook with the updates the modal builds: no id, no dateAdded
editBookNow ==
    \E id \in Ids(books), s \in ReadingStatus :
        /\ books' = [k \in 1 .. Len(books) |-> IF books[k].id = id THEN [books[k] EXCEPT !.status = s] ELSE books[k]]
        /\ books' # books
        /\ UNCHANGED <<mode, year, nextId, dbVars, customShelves, readingGoal, isLoading, handlers, viewVars>>

\* handleDeleteBook: prev.filter(book => book.id !== bookId)
deleteBookNow ==
    \E id \in Ids(books) :
        /\ books' = SelectSeq(books, LAMBDA b : b.id # id)
        /\ UNCHANGED <<mode, year, nextId, dbVars, customShelves, readingGoal, isLoading, handlers, viewVars>>

ClockNext ==
    \/ clockTick
    \/ addBookNow
    \/ editBookNow
    \/ deleteBookNow
    \/ NewYear

ClockSpec == InitClock /\ [][ClockNext]_vars

(* ------------------------------------------------------------------ *)
(* C21: book ids                                                       *)
(* ------------------------------------------------------------------ *)
\* C21: after any sequence of add, edit and delete operations the ids of the
\* books in the collection are pairwise distinct, and a step changes neither
\* the id nor the dateAdded of a book it keeps
C21_IdsDistinctAndFixed ==
    [][/\ \A k, j \in 1 .. Len(books') : k # j => books'[k].id # books'[j].id
       /\ \A k \in 1 .. Len(books) : \A j \in 1 .. Len(books') : books'[j].id = books[k].id => books'[j].dateAdded = books[k].dateAdded]_vars

(* ------------------------------------------------------------------ *)
(* The latest review of a book, as the book card shows it. A review is *)
(* its id (its position) and the day it was added.                     *)
(* ------------------------------------------------------------------ *)
MaxListed == 4

MaxDays == 3

ReviewLists == UNION {[1 .. n -> 1 .. MaxDays] : n \in 0 .. MaxListed}

RECURSIVE LatestOrLast(_)
\* a reduce that also replaces the review kept by one of the same day
LatestOrLast(reviews) ==
    IF Len(reviews) = 1 THEN reviews[1]
    ELSE LET latest == LatestOrLast(SubSeq(reviews, 1, Len(reviews) - 1))
             review == reviews[Len(reviews)]
         IN IF review.dateAdded >= latest.dateAdded THEN review ELSE latest

RECURSIVE ReduceLatest(_)
\* reviews.reduce((latest, review) => new Date(review.dateAdded) > new Date(latest.dateAdded) ? review : latest)
ReduceLatest(reviews) ==
    IF Len(reviews) = 1 THEN reviews[1]
    ELSE LET latest == ReduceLatest(SubSeq(reviews, 1, Len(reviews) - 1))
             review == reviews[Len(reviews)]
         IN IF review.dateAdded > latest.dateAdded THEN review ELSE latest

\* getLatestReview: null for a book without reviews
getLatestReview(book) == IF book.reviews = <<>> THEN None ELSE Some(ReduceLatest(book.reviews))

\* localStorage mode with one saved book
InitLatest ==
    /\ mode = "local"
    /\ year = FirstYear
    /\ nextId = [book |-> 2, shelf |-> 1]
    /\ dbBooks = <<>>
    /\ dbShelves = {}
    /\ dbGoals = <<>>
    /\ books \in {<<[id |-> 1, reviews |-> [k \in 1 .. Len(days) |-> [id |-> k, dateAdded |-> days[k]]]]>> : days \in ReviewLists}
    /\ customShelves = <<>>
    /\ readingGoal = initialReadingGoal
    /\ isLoading = FALSE
    /\ handlers = <<>>
    /\ view = initialView
    /\ rendered = <<>>
    /\ stats = NoStats
    /\ response = NoResponse

\* the card of the book renders: it shows getLatestReview(book)
showLatest ==
    /\ rendered = <<>>
    /\ rendered' = <<[book |-> books[1].id, latest |-> getLatestReview(books[1])]>>
    /\ UNCHANGED <<mode, year, nextId, dbVars, clientVars, handlers, view, stats, response>>

\* a review is added to the book after the card was shown: the card is stale
\* until it renders again
addListedReview ==
    \E day \in 1 .. MaxDays :
        /\ Len(books[1].reviews) < MaxListed
        /\ books' = <<[books[1] EXCEPT !.reviews = Append(@, [id |-> Len(@) + 1, dateAdded |-> day])]>>
        /\ rendered' = <<>>
        /\ UNCHANGED <<mode, year, nextId, dbVars, customShelves, readingGoal, isLoading, handlers, view, stats, response>>

LatestNext ==
    \/ showLatest
    \/ addListedReview

LatestSpec == InitLatest /\ [][LatestNext]_vars

MaxOwned == 3

BookIds == {1, 2}

\* a lookup by the review id alone
FindAnyReview(rows, bookId, reviewId) == \E k \in 1 .. Len(rows) : rows[k].id = reviewId

\* prisma.review.findFirst({ where: { id: reviewId, bookId } })
FindReview(rows, bookId, reviewId) == \E k \in 1 .. Len(rows) : rows[k].id = reviewId /\ rows[k].bookId = bookId

\* router.put('/:bookId/reviews/:reviewId')
PutOwned(rows, bookId, reviewId, rating) ==
    IF ~FindReview(rows, bookId, reviewId) THEN [status |-> 404, rows |-> rows]
    ELSE [status |-> 200, rows |-> [k \in 1 .. Len(rows) |-> IF rows[k].id = reviewId /\ IsSome(rating) THEN [rows[k] EXCEPT !.rating = Val(rating)] ELSE rows[k]]]

\* router.delete('/:bookId/reviews/:reviewId')
DeleteOwned(rows, bookId, reviewId) ==
    IF ~FindReview(rows, bookId, reviewId) THEN [status |-> 404, rows |-> rows]
    ELSE [status |-> 204, rows |-> SelectSeq(rows, LAMBDA row : row.id # reviewId)]

\* MaxOwned reviews, each of one of the two books
InitOwner ==
    /\ mode = "api"
    /\ year = FirstYear
    /\ nextId = [book |-> 3, shelf |-> 1]
    /\ dbBooks \in {[k \in 1 .. MaxOwned |-> [id |-> k, bookId |-> parent[k], rating |-> 3]] : parent \in [1 .. MaxOwned -> BookIds]}
    /\ dbShelves = {}
    /\ dbGoals = <<>>
    /\ books = <<>>
    /\ customShelves = <<>>
    /\ readingGoal = initialReadingGoal
    /\ isLoading = FALSE
    /\ handlers = <<>>
    /\ view = initialView
    /\ rendered = <<>>
    /\ stats = NoStats
    /\ response = NoResponse

requestPutOwned ==
    \E bookId \in BookIds, reviewId \in 1 .. MaxOwned, rating \in {None, Some(1), Some(MaxRating)} :
        /\ LET r == PutOwned(dbBooks, bookId, reviewId, rating)
           IN /\ dbBooks' = r.rows
              /\ response' = [status |-> r.status, method |-> "PUT", bookId |-> bookId, reviewId |-> reviewId]
        /\ UNCHANGED <<mode, year, nextId, dbShelves, dbGoals, clientVars, handlers, view, rendered, stats>>

requestDeleteOwned ==
    \E bookId \in BookIds, reviewId \in 1 .. MaxOwned :
        /\ LET r == DeleteOwned(dbBooks, bookId, reviewId)
           IN /\ dbBooks' = r.rows
              /\ response' = [status |-> r.status, method |-> "DELETE", bookId |-> bookId, reviewId |-> reviewId]
        /\ UNCHANGED <<mode, year, nextId, dbShelves, dbGoals, clientVars, handlers, view, rendered, stats>>

OwnerNext ==
    \/ requestPutOwned
    \/ requestDeleteOwned

OwnerSpec == InitOwner /\ [][OwnerNext]_vars

(* ------------------------------------------------------------------ *)
(* C23: a review is reached through its own book only                  *)
(* ------------------------------------------------------------------ *)
ParentOf(rows, reviewId) == {rows[k].bookId : k \in {j \in 1 .. Len(rows) : rows[j].id = reviewId}}

Others(rows, reviewId) == SelectSeq(rows, LAMBDA row : row.id # reviewId)

MaxSent == 3

\* reviews: { orderBy: { dateAdded: 'desc' } }: the rows are kept in the order
\* of their creation, the timestamps grow with it
NewestFirst(reviews) == [k \in 1 .. Len(reviews) |-> reviews[Len(reviews) + 1 - k]]

\* router.get('/'): each book with its reviews, newest first
GetBooks(rows) == [k \in 1 .. Len(rows) |-> [rows[k] EXCEPT !.reviews = NewestFirst(@)]]

\* getRecommendations: the read books with reviews if there are three or
\* more, else all books; review is the content of the last review
Payload(bs) ==
    LET readBooksWithReviews == SelectSeq(bs, LAMBDA b : b.status = "read" /\ b.reviews # <<>>)
        booksToSend == IF Len(readBooksWithReviews) >= 3 THEN readBooksWithReviews ELSE bs
    IN [k \in 1 .. Len(booksToSend) |-> [book |-> booksToSend[k].id, review |-> IF booksToSend[k].reviews = <<>> THEN None ELSE Some(booksToSend[k].reviews[Len(booksToSend[k].reviews)].id)]]

InitSent ==
    /\ mode = "api"
    /\ year = FirstYear
    /\ nextId = [book |-> 2, shelf |-> 1]
    /\ dbBooks = <<[id |-> 1, status |-> "read", reviews |-> <<>>]>>
    /\ dbShelves = {}
    /\ dbGoals = <<>>
    /\ books = dbBooks
    /\ customShelves = <<>>
    /\ readingGoal = initialReadingGoal
    /\ isLoading = FALSE
    /\ handlers = <<>>
    /\ view = initialView
    /\ rendered = <<>>
    /\ stats = NoStats
    /\ response = NoResponse

\* handleAddReview: POST /api/books/:id/reviews, then the new review is
\* appended to the reviews the client holds
addSentReview ==
    /\ Len(dbBooks[1].reviews) < MaxSent
    /\ LET review == [id |-> Len(dbBooks[1].reviews) + 1, dateAdded |-> year]
       IN /\ dbBooks' = <<[dbBooks[1] EXCEPT !.reviews = Append(@, review)]>>
          /\ books' = <<[books[1] EXCEPT !.reviews = Append(@, review)]>>
    /\ response' = [status |-> 201]
    /\ UNCHANGED <<mode, year, nextId, dbShelves, dbGoals, customShelves, readingGoal, isLoading, handlers, view, rendered, stats>>

\* the page is loaded again: loadData puts the answer of GET /api/books in books
loadSent ==
    /\ books' = GetBooks(dbBooks)
    /\ books' # books
    /\ response' = [status |-> 200]
    /\ UNCHANGED <<mode, year, nextId, dbVars, customShelves, readingGoal, isLoading, handlers, view, rendered, stats>>

\* the panel asks for recommendations: rendered is the books of the payload
sendRecommendations ==
    /\ rendered' = Payload(books)
    /\ rendered' # rendered
    /\ UNCHANGED <<mode, year, nextId, dbVars, clientVars, handlers, view, stats, response>>

SentNext ==
    \/ addSentReview
    \/ loadSent
    \/ sendRecommendations
    \/ NewYear

SentSpec == InitSent /\ [][SentNext]_vars

(* ------------------------------------------------------------------ *)
(* C24: the review in the recommendation payload                       *)
(* ------------------------------------------------------------------ *)
\* C24: for every book of the payload just built from the books the client
\* holds, the review sent is the one getLatestReview returns for that book
C24_PayloadHasLatestReview ==
    [][rendered' # rendered => \A k \in 1 .. Len(rendered') : \A j \in 1 .. Len(books) : books[j].id = rendered'[k].book =>
        rendered'[k].review = (IF getLatestReview(books[j]) = None THEN None ELSE Some(Val(getLatestReview(books[j])).id))]_vars

(* ------------------------------------------------------------------ *)
(* POST /api/recommendations: primary provider, fallback, error code   *)
(* ------------------------------------------------------------------ *)
MaxBasedOn == 4

\* the two providers the route can call
Providers == {"openai", "parallel"}

\* the provider field of a request body: missing, one of the two names of the
\* type, or any other string (the type is not checked when the request arrives)
RequestProviders == {"undefined", "openai", "parallel", "gemini"}

\* what a call of a provider ends with: a parsed array, a parsed value that
\* is no array, or an Error whose message holds 'API key', 'rate limit' or
\* neither
Outcomes == {"array", "notArray", "apiKey", "rateLimit", "error"}

Throws(o) == o \in {"apiKey", "rateLimit", "error"}

\* const { provider = 'openai' } = req.body
ProviderOrDefault(p) == IF p = "undefined" THEN "openai" ELSE p

\* if (provider === 'parallel') parallel else openai
PrimaryOf(provider) == IF provider = "parallel" THEN "parallel" ELSE "openai"

FallbackOf(provider) == IF provider = "parallel" THEN "openai" ELSE "parallel"

\* the outer catch: 401, 429 or 500 by the message of the error
ErrorStatus(o) == IF o = "apiKey" THEN 401 ELSE IF o = "rateLimit" THEN 429 ELSE 500

\* the response once a call of a provider has returned without an Error
Answer(n, source, o) ==
    IF o = "array"
    THEN [status |-> 200, source |-> source, basedOn |-> n]
    ELSE [status |-> 500, source |-> "", basedOn |-> 0]

InitRecommend == InitIdle /\ mode = "api"

\* a request arrives: without books it is answered 400, otherwise handlers
\* holds its body and the provider calls made for it until it is answered
receiveRecommendations ==
    /\ handlers = <<>>
    /\ \E n \in 0 .. MaxBasedOn, p \in RequestProviders :
        IF n = 0
        THEN /\ response' = [status |-> 400, source |-> "", basedOn |-> 0]
             /\ handlers' = handlers
        ELSE /\ response' = NoResponse
             /\ handlers' = <<[books |-> n, provider |-> ProviderOrDefault(p), calls |-> <<>>]>>
    /\ rendered' = <<>>
    /\ UNCHANGED <<mode, year, nextId, dbVars, clientVars, view, stats>>

\* the first call: rendered keeps the calls of the request answered last
callPrimary ==
    /\ handlers # <<>>
    /\ handlers[1].calls = <<>>
    /\ \E o \in Outcomes :
        LET h == handlers[1]
            calls == <<[provider |-> PrimaryOf(h.provider), outcome |-> o]>>
        IN  IF Throws(o)
            THEN /\ handlers' = <<[h EXCEPT !.calls = calls]>>
                 /\ UNCHANGED <<rendered, response>>
            ELSE /\ handlers' = <<>>
                 /\ rendered' = calls
                 /\ response' = Answer(h.books, h.provider, o)
    /\ UNCHANGED <<mode, year, nextId, dbVars, clientVars, view, stats>>

\* the call in the catch block of the first one
callFallback ==
    /\ handlers # <<>>
    /\ Len(handlers[1].calls) = 1
    /\ \E o \in Outcomes :
        LET h == handlers[1]
            calls == h.calls \o <<[provider |-> FallbackOf(h.provider), outcome |-> o]>>
        IN  /\ rendered' = calls
            /\ response' = IF Throws(o)
                            THEN [status |-> ErrorStatus(h.calls[1].outcome), source |-> "", basedOn |-> 0]
                            ELSE Answer(h.books, FallbackOf(h.provider), o)
    /\ handlers' = <<>>
    /\ UNCHANGED <<mode, year, nextId, dbVars, clientVars, view, stats>>

RecommendNext ==
    \/ receiveRecommendations
    \/ callPrimary
    \/ callFallback

RecommendSpec == InitRecommend /\ [][RecommendNext]_vars

(* ------------------------------------------------------------------ *)
(* C25: the source of a recommendation response, and the error status  *)
(* ------------------------------------------------------------------ *)
\* C25: the fallback provider is called only after the first call failed; the
\* source of a 200 response is the provider whose call returned the
\* recommendations; when both calls fail the status is the one of the first
\* call's error (401 API key, 429 rate limit, otherwise 500)
C25_SourceNamesProducer ==
    /\ Len(rendered) = 2 => Throws(rendered[1].outcome) /\ rendered[2].provider # rendered[1].provider
    /\ Len(rendered) > 0 /\ response.status = 200 =>
        /\ rendered[Len(rendered)].outcome = "array"
        /\ response.source = rendered[Len(rendered)].provider
    /\ Len(rendered) = 2 /\ Throws(rendered[2].outcome) =>
        response.status = ErrorStatus(rendered[1].outcome)

(* ------------------------------------------------------------------ *)
(* POST /api/shelves and PUT /api/shelves/:id: shelf names             *)
(* ------------------------------------------------------------------ *)
\* the name field of a shelf request: two names, one of them also with a
\* space after it, and a name of spaces only
ShelfNames == {<<"a">>, <<"a", " ">>, <<"b">>, <<" ">>}

\* the Shelf table in this part: rows [id, name]
NamesOf(rows) == {r.name : r \in rows}

\* prisma.shelf.findUnique({ where: { name } })
FindByName(rows, name) == {r \in rows : r.name = name}

\* prisma.shelf.findFirst({ where: { name, NOT: { id } } })
FindDuplicate(rows, name, id) == {r \in rows : r.name = name /\ r.id # id}

\* the unique index of Shelf.name that findUnique({ where: { name } }) relies
\* on: a write that would store a name twice throws
UniqueViolation(rows, name, id) == FindDuplicate(rows, name, id) # {}

InitNames == InitIdle /\ mode = "api"

NamesFrame == UNCHANGED <<mode, year, dbBooks, dbGoals, clientVars, view, rendered, stats>>

\* the in-flight requests once request i is answered
Finished(hs, i) == SubSeq(hs, 1, i - 1) \o SubSeq(hs, i + 1, Len(hs))

\* the answer to the in-flight request h
ShelfAnswer(h, status) == [status |-> status, method |-> h.method, id |-> h.id, name |-> h.name]

\* a create request arrives: the name is checked and trimmed
requestPostShelf ==
    /\ Len(handlers) < MaxInflight
    /\ \E name \in ShelfNames :
        IF Len(trim(name)) = 0
        THEN /\ response' = [status |-> 400, method |-> "POST", id |-> 0, name |-> trim(name)]
             /\ handlers' = handlers
        ELSE /\ response' = response
             /\ handlers' = Append(handlers, [method |-> "POST", id |-> 0, name |-> trim(name), pc |-> "findUnique"])
    /\ UNCHANGED <<nextId, dbShelves>>
    /\ NamesFrame

\* a rename request arrives for shelf id
requestPutShelf ==
    /\ Len(handlers) < MaxInflight
    /\ \E id \in 1 .. MaxShelves, name \in ShelfNames :
        IF Len(trim(name)) = 0
        THEN /\ response' = [status |-> 400, method |-> "PUT", id |-> id, name |-> trim(name)]
             /\ handlers' = handlers
        ELSE /\ response' = response
             /\ handlers' = Append(handlers, [method |-> "PUT", id |-> id, name |-> trim(name), pc |-> "findUnique"])
    /\ UNCHANGED <<nextId, dbShelves>>
    /\ NamesFrame

\* the first query of a request: by name for a create, by id for a rename
shelfFindUnique ==
    \E i \in 1 .. Len(handlers) :
        LET h == handlers[i]
        IN  /\ h.pc = "findUnique"
            /\ IF h.method = "POST"
               THEN IF FindByName(dbShelves, h.name) # {}
                    THEN response' = ShelfAnswer(h, 409) /\ handlers' = Finished(handlers, i)
                    ELSE response' = response /\ handlers' = [handlers EXCEPT ![i].pc = "write"]
               ELSE IF h.id \notin {r.id : r \in dbShelves}
                    THEN response' = ShelfAnswer(h, 404) /\ handlers' = Finished(handlers, i)
                    ELSE response' = response /\ handlers' = [handlers EXCEPT ![i].pc = "findFirst"]
            /\ UNCHANGED <<nextId, dbShelves>>
            /\ NamesFrame

\* the second query of a rename: another shelf of that name
shelfFindFirst ==
    \E i \in 1 .. Len(handlers) :
        LET h == handlers[i]
        IN  /\ h.pc = "findFirst"
            /\ IF FindDuplicate(dbShelves, h.name, h.id) # {}
               THEN response' = ShelfAnswer(h, 409) /\ handlers' = Finished(handlers, i)
               ELSE response' = response /\ handlers' = [handlers EXCEPT ![i].pc = "write"]
            /\ UNCHANGED <<nextId, dbShelves>>
            /\ NamesFrame

\* prisma.shelf.create / prisma.shelf.update and the response; a write that
\* throws is answered 500 by the catch block
shelfWrite ==
    \E i \in 1 .. Len(handlers) :
        LET h == handlers[i]
        IN  /\ h.pc = "write"
            /\ handlers' = Finished(handlers, i)
            /\ IF h.method = "POST"
               THEN IF UniqueViolation(dbShelves, h.name, 0) \/ nextId.shelf > MaxShelves
                    THEN response' = ShelfAnswer(h, 500) /\ UNCHANGED <<nextId, dbShelves>>
                    ELSE /\ dbShelves' = dbShelves \cup {[id |-> nextId.shelf, name |-> h.name]}
                         /\ nextId' = [nextId EXCEPT !.shelf = @ + 1]
                         /\ response' = [ShelfAnswer(h, 201) EXCEPT !.id = nextId.shelf]
               ELSE IF UniqueViolation(dbShelves, h.name, h.id)
                    THEN response' = ShelfAnswer(h, 500) /\ UNCHANGED <<nextId, dbShelves>>
                    ELSE /\ dbShelves' = {IF r.id = h.id THEN [r EXCEPT !.name = h.name] ELSE r : r \in dbShelves}
                         /\ nextId' = nextId
                         /\ response' = ShelfAnswer(h, 200)
            /\ NamesFrame

NamesNext ==
    \/ requestPostShelf
    \/ requestPutShelf
    \/ shelfFindUnique
    \/ shelfFindFirst
    \/ shelfWrite

NamesSpec == InitNames /\ [][NamesNext]_vars

(* ------------------------------------------------------------------ *)
(* C26: shelf names stay distinct, duplicates are answered 409         *)
(* ------------------------------------------------------------------ *)
\* the step answers a request
ShelfAnswered == Len(handlers') < Len(handlers) \/ (handlers' = handlers /\ response' # response)

\* C26: no two stored shelves have the same name, and a create or rename of
\* an existing shelf whose name is, when it is answered, the name of another
\* stored shelf is answered 409 and leaves the shelves as they were
C26_NamesDistinctDuplicates409 ==
    [][/\ \A r, q \in dbShelves' : r.name = q.name => r.id = q.id
       /\ (/\ ShelfAnswered
           /\ response'.status # 404
           /\ FindDuplicate(dbShelves, response'.name, IF response'.method = "POST" THEN 0 ELSE response'.id) # {})
          => (response'.status = 409 /\ dbShelves' = dbShelves)]_vars

(* ------------------------------------------------------------------ *)
(* C27: a handler whose backend write fails                            *)
(* ------------------------------------------------------------------ *)
\* the requests of a handler that end it with an error when they are refused:
\* the rejected await throws past the state updates into the catch block
WritePcs == {"put_find", "put_update", "del_find", "del_delete", "post_create"}

\* this step ends handler i with an error: its request was refused
EndsWithError(i) == handlers[i].pc \in WritePcs /\ handlers' = Finished(handlers, i)

\* every book the client shows is the stored row of its id
ShownAsStored(bs, rows) == \A k \in 1 .. Len(bs) : bs[k].id \in DOMAIN rows /\ rows[bs[k].id] = bs[k]

\* C27: when the backend write of a handler fails, the books, shelves and
\* reading goal of the client are as they were before, and once the handler
\* has ended with the error every book the client shows equals its stored row
C27_FailedWriteLeavesClientAsBackend ==
    [][\A i \in 1 .. Len(handlers) : EndsWithError(i) =>
        /\ books' = books /\ customShelves' = customShelves /\ readingGoal' = readingGoal
        /\ ShownAsStored(books', dbBooks')]_vars

(* ------------------------------------------------------------------ *)
(* The review modal: selectedBook, isModalOpen and the delayed clear   *)
(* ------------------------------------------------------------------ *)
MaxTimers == 2

\* the modal state of the App; view holds it in this part: selectedBook is
\* the id of the selected book, timers the number of setTimeout callbacks
\* that have not run yet
initialModal == [selectedBook |-> None, isModalOpen |-> FALSE, timers |-> 0]

InitModal ==
    /\ mode \in {"api", "local"}
    /\ year = FirstYear
    /\ nextId = [book |-> MaxBooks + 1, shelf |-> 1]
    /\ dbBooks = IF mode = "api" THEN [k \in 1 .. MaxBooks |-> [id |-> k]] ELSE <<>>
    /\ dbShelves = {}
    /\ dbGoals = <<>>
    /\ books = [k \in 1 .. MaxBooks |-> [id |-> k]]
    /\ customShelves = <<>>
    /\ readingGoal = initialReadingGoal
    /\ isLoading = FALSE
    /\ handlers = <<>>
    /\ view = initialModal
    /\ rendered = <<>>
    /\ stats = NoStats
    /\ response = NoResponse

ModalFrame == UNCHANGED <<mode, year, nextId, dbShelves, dbGoals, customShelves, readingGoal, isLoading, rendered, stats, response>>

\* setIsModalOpen(false); setTimeout(() => setSelectedBook(null), 200)
CloseModal(v) == [v EXCEPT !.isModalOpen = FALSE, !.timers = @ + 1]

\* a book card is clicked; the cards are covered while the modal is open
handleBookClick ==
    /\ ~view.isModalOpen
    /\ \E i \in 1 .. Len(books) : view' = [view EXCEPT !.selectedBook = Some(books[i].id), !.isModalOpen = TRUE]
    /\ UNCHANGED <<dbBooks, books, handlers>>
    /\ ModalFrame

\* the close button or the backdrop of the open modal
handleCloseModal ==
    /\ view.isModalOpen
    /\ view.timers < MaxTimers
    /\ view' = CloseModal(view)
    /\ UNCHANGED <<dbBooks, books, handlers>>
    /\ ModalFrame

\* a callback of setTimeout runs
clearSelectedBook ==
    /\ view.timers > 0
    /\ view' = [view EXCEPT !.selectedBook = None, !.timers = @ - 1]
    /\ UNCHANGED <<dbBooks, books, handlers>>
    /\ ModalFrame

\* localStorage mode: the delete button of the modal
handleDeleteBookModalLocal ==
    /\ mode = "local"
    /\ view.isModalOpen /\ IsSome(view.selectedBook)
    /\ view.timers < MaxTimers
    /\ books' = SelectSeq2(books, Ids(books) \ {Val(view.selectedBook)})
    /\ view' = CloseModal(view)
    /\ UNCHANGED <<dbBooks, handlers>>
    /\ ModalFrame

\* API mode: the delete button of the modal sends DELETE /books/:id
handleDeleteBookModal ==
    /\ mode = "api"
    /\ view.isModalOpen /\ IsSome(view.selectedBook)
    /\ Len(handlers) < MaxInflight
    /\ handlers' = Append(handlers, [id |-> Val(view.selectedBook)])
    /\ UNCHANGED <<dbBooks, books, view>>
    /\ ModalFrame

\* the request is answered: a missing book is a 404 and the handler throws,
\* otherwise the row is deleted and the handler goes on after its await
deleteBookAnswered ==
    /\ handlers # <<>>
    /\ view.timers < MaxTimers
    /\ handlers' = Tail(handlers)
    /\ IF Head(handlers).id \in Ids(dbBooks)
       THEN /\ dbBooks' = SelectSeq2(dbBooks, Ids(dbBooks) \ {Head(handlers).id})
            /\ books' = SelectSeq2(books, Ids(books) \ {Head(handlers).id})
            /\ view' = CloseModal(view)
       ELSE UNCHANGED <<dbBooks, books, view>>
    /\ ModalFrame

ModalNext ==
    \/ handleBookClick
    \/ handleCloseModal
    \/ clearSelectedBook
    \/ handleDeleteBookModalLocal
    \/ handleDeleteBookModal
    \/ deleteBookAnswered

ModalSpec == InitModal /\ [][ModalNext]_vars

(* ------------------------------------------------------------------ *)
(* C28: an open modal has a selected book                              *)
(* ------------------------------------------------------------------ *)
\* C28: whenever isModalOpen is true, selectedBook is not null
C28_OpenModalHasBook == view.isModalOpen => view.selectedBook # None

(* ------------------------------------------------------------------ *)
(* localStorage mode: the collection is saved after every change and   *)
(* loaded, migrated and merged with the initial books on a reload      *)
(* ------------------------------------------------------------------ *)
\* the fields of a book that may be undefined
OptionalFields == {"progress", "totalPages", "shelf"}

\* JSON.stringify of one book: a field that is undefined is left out
StringifyBook(book) ==
    [f \in {"id", "status", "dateAdded"} \cup {g \in OptionalFields : IsSome(book[g])} |->
        IF f \in OptionalFields THEN Val(book[f]) ELSE book[f]]

\* localStorage.setItem(STORAGE_KEY, JSON.stringify(books))
StringifyBooks(bs) == [k \in 1 .. Len(bs) |-> StringifyBook(bs[k])]

\* a field of a parsed book that may be missing
Field(json, f) == IF f \in DOMAIN json THEN Some(json[f]) ELSE None

\* migrateBook on a parsed book that has a reviews array: the book with
\* status and dateAdded filled in when they are missing
migrateBook(json, today) ==
    [id |-> json.id,
     status |-> IF "status" \in DOMAIN json THEN json.status ELSE "read",
     progress |-> Field(json, "progress"),
     totalPages |-> Field(json, "totalPages"),
     shelf |-> Field(json, "shelf"),
     dateAdded |-> IF "dateAdded" \in DOMAIN json THEN json.dateAdded ELSE today]

\* the initial state of books: the saved books migrated, followed by the
\* initial books whose id is not among them
LoadBooks(saved, today) ==
    LET migratedBooks == [k \in 1 .. Len(saved) |-> migrateBook(saved[k], today)]
        missingInitial == SelectSeq2(initialBooks, Ids(initialBooks) \ Ids(migratedBooks))
    IN  migratedBooks \o missingInitial

\* the first visit: nothing is saved, the initial books are shown and saved;
\* dbBooks is the value kept under STORAGE_KEY in this part
InitStorage ==
    /\ mode = "local"
    /\ year = FirstYear
    /\ nextId = [book |-> NumInitial + 1, shelf |-> 1]
    /\ dbBooks = StringifyBooks(initialBooks)
    /\ dbShelves = {}
    /\ dbGoals = <<>>
    /\ books = initialBooks
    /\ customShelves = <<>>
    /\ readingGoal = initialReadingGoal
    /\ isLoading = FALSE
    /\ handlers = <<>>
    /\ view = initialView
    /\ rendered = <<>>
    /\ stats = NoStats
    /\ response = NoResponse

StorageFrame == UNCHANGED <<mode, year, dbShelves, dbGoals, customShelves, readingGoal, isLoading, handlers, view, rendered, stats, response>>

\* handleAddBook and the persist effect
addBookStored ==
    /\ nextId.book <= NumInitial + MaxCreate
    /\ \E form \in BookForms(Pages, customShelves) : books' = <<NewBook(nextId.book, form, year)>> \o books
    /\ nextId' = [nextId EXCEPT !.book = @ + 1]
    /\ dbBooks' = StringifyBooks(books')
    /\ StorageFrame

\* handleChangeStatus (through handleEditBook) and the persist effect
editBookStored ==
    /\ \E i \in 1 .. Len(books), s \in ReadingStatus :
        /\ s # books[i].status
        /\ books' = [j \in 1 .. Len(books) |-> IF j = i THEN Merge(books[j], ChangeStatusUpdates(books[j], s)) ELSE books[j]]
    /\ dbBooks' = StringifyBooks(books')
    /\ UNCHANGED nextId
    /\ StorageFrame

\* handleDeleteBook and the persist effect
deleteBookStored ==
    /\ \E i \in 1 .. Len(books) : books' = SelectSeq2(books, Ids(books) \ {books[i].id})
    /\ dbBooks' = StringifyBooks(books')
    /\ UNCHANGED nextId
    /\ StorageFrame

\* the page is loaded again: books starts from what is saved, and the persist
\* effect saves it
reloadStored ==
    /\ books' = LoadBooks(dbBooks, year)
    /\ dbBooks' = StringifyBooks(books')
    /\ UNCHANGED nextId
    /\ StorageFrame

StorageNext ==
    \/ addBookStored
    \/ editBookStored
    \/ deleteBookStored
    \/ reloadStored

StorageSpec == InitStorage /\ [][StorageNext]_vars

(* ------------------------------------------------------------------ *)
(* C29: saving and reloading is a round trip                           *)
(* ------------------------------------------------------------------ *)
\* C29: a step that loads the collection from what is saved yields the books
\* that were shown, and saved, before it: same ids, same fields, and no
\* deleted book back
C29_ReloadIsRoundTrip == [][books' = LoadBooks(dbBooks, year) => books' = books]_vars

(* ------------------------------------------------------------------ *)
(* C30: progress stays within the page count                           *)
(* ------------------------------------------------------------------ *)
\* progress, when the page count is known, lies between 0 and it, and a book
\* that was read stands at its last page
WithinPages(b) ==
    /\ (IsSome(b.progress) /\ IsSome(b.totalPages)) => (0 <= Val(b.progress) /\ Val(b.progress) <= Val(b.totalPages))
    /\ (b.status = "read" /\ IsSome(b.totalPages)) => b.progress = b.totalPages

\* C30: every book, as the client holds it and as the backend stores it, has
\* 0 <= progress <= totalPages when both are defined, and progress =
\* totalPages when it is read and totalPages is defined
C30_ProgressWithinPages ==
    /\ \A k \in 1 .. Len(books) : WithinPages(books[k])
    /\ \A id \in DOMAIN dbBooks : WithinPages(dbBooks[id])


============================================================================
